---- MODULE Spec2Model ----
(***************************************************************************)
(* Result ingestion and synchronisation pipeline of the viva admin panel:  *)
(*   - POST /webhook/viva-result  (dual write: relational + spreadsheet)   *)
(*   - POST /sync-results         (full-replace reconciliation cycle)      *)
(*   - GET  /viva-results         (relational-first read, sheet fallback)  *)
(*   - scripts/auto-sync.ts       (idempotent upsert from the call API)    *)
(* Every await of the source is a suspension point, hence one action per   *)
(* remote call; the requests interleave at those points.                   *)
(***************************************************************************)
EXTENDS Integers, Sequences, FiniteSets, TLC

\* ---------------------------------------------------------------- bounds
\* webhook requests received in one behaviour
MaxRequests == 1
\* full-replace cycles started in one behaviour
MaxCycles == 1
\* rows the 'Viva Results' sheet holds before the first request
MaxInitRows == 1
\* upsert cycles started in one behaviour
MaxVapiCycles == 2
\* calls on the remote call list
MaxCalls == 2
\* largest hour field of a 'D Mon YYYY, H:MM' timestamp text
MaxHour == 13
\* seconds the wall clock advances while the normalizer is exercised
MaxTicks == 2
\* calls of the normalizer on one text
MaxNormCalls == 2
\* result rows in a listing
MaxListRows == 3
\* tokens (digit runs, words, blanks, signs) in a score or count text
MaxTokens == 3
\* sheet rows read when the evaluation column is exercised
MaxEvalRows == 2
\* sheet rows read when the statistics are exercised
MaxStatRows == 3
\* sheet rows read when the student summaries are exercised
MaxStudentRows == 2
\* subject, topic and question requests in one behaviour, which may overlap
MaxCatReqs == 2
\* pages of the call listing that hold calls or fail (later pages are empty)
MaxPages == 2
\* tokens of a score text in a payload
MaxScoreTokens == 2

\* ------------------------------------------------------ program constants
passingScore == 50
\* limit=100 of the call listing
PageLimit == 100

VARIABLES
  db,          \* viva_results table: set of rows [id, ts, name, via]
  nextId,      \* the table's SERIAL sequence (TRUNCATE does not restart it)
  sheet,       \* data rows of the 'Viva Results' sheet (below the header)
  clock,       \* wall clock, one tick per webhook request
  sheetIdSet,  \* whether GOOGLE_SHEET_ID is set in the environment
  wh,          \* the webhook request in flight
  sync,        \* the POST /sync-results request in flight
  rd,          \* the GET /viva-results request in flight
  vdb,         \* viva_results as scripts/auto-sync.ts sees it
  vnext,       \* SERIAL sequence of vdb
  remote,      \* the call list the call platform returns (any list, fixed per behaviour)
  cyc,         \* the two syncFromVapi executions that may overlap
  vruns,       \* upsert cycles started so far
  lastRun,     \* history: table and call list at the end of the last upsert cycle
  tsText,      \* the timestamp text handed to the normalizers
  tsNow,       \* the instant new Date() returns
  tsCalls,     \* history: the calls of the normalizers on tsText, in order
  lsRows,      \* timestamp texts of the result rows to list, in sheet order
  lsOut,       \* the last listing: its path and the order of the rows in it
  numIn,       \* a score / questionsAnswered value as a payload or a cell holds it
  numOut,      \* what each path extracted from numIn (none: not yet)
  shRows,      \* data rows of the 'Viva Results' sheet, columns A, B, D, G, K
  shOut,       \* what the read operations and the sync loop made of them
  topicsSheet,   \* data rows of the 'Topics' sheet: [subject, name, status]
  subjectsSheet, \* data rows of the 'Subjects' sheet: [name, code, status]
  catReq,        \* the subject, topic and question requests, one per slot
  connectorSet,  \* whether the connector hostname and identity token are set
  platform,      \* the call platform: whether VAPI_API_KEY is set, the pages it serves
  pull,          \* fetchVapiCalls of each syncFromVapi execution: page, allCalls, outcome
  other,         \* a second POST /sync-results request, under way beside the first
  conv,          \* history: the reports that preceded the cycle, the table it left
  dual           \* one payload, the row inserted directly, the cells appended, the row derived

vars == <<db, nextId, sheet, clock, sheetIdSet, wh, sync, rd,
          vdb, vnext, remote, cyc, vruns, lastRun,
          tsText, tsNow, tsCalls, lsRows, lsOut, numIn, numOut, shRows, shOut,
          topicsSheet, subjectsSheet, catReq, connectorSet, platform, pull, other, conv,
          dual>>

pipeVars == <<db, nextId, sheet, clock, sheetIdSet, wh, sync, rd>>
vapiVars == <<vdb, vnext, remote, cyc, vruns, lastRun>>
timeVars == <<tsText, tsNow, tsCalls>>
\* the variables of the pure functions, which no request handler touches
listVars == <<lsRows, lsOut>>
numVars == <<numIn, numOut>>
readVars == <<shRows, shOut>>
\* the catalogue of subjects and topics and the requests on it
catVars == <<topicsSheet, subjectsSheet, catReq>>
\* the configuration and the paged listing of the call platform
pullVars == <<connectorSet, platform, pull>>
\* everything but the catalogue among them
restVars == <<pullVars, other, conv, dual>>
extVars == <<catVars, restVars>>
pureBase == <<timeVars, listVars, numVars, readVars>>
pureVars == <<timeVars, listVars, numVars, readVars, extVars>>

\* ------------------------------------------------------------ data model
\* student names a payload may carry; "" is the falsy (absent) name
Names == {"Asha"}

\* request bodies as request.json() yields them: malformed text, JSON null,
\* an object without studentName, an object with one
Bodies == {[kind |-> "invalid", name |-> ""], [kind |-> "null", name |-> ""],
           [kind |-> "object", name |-> ""]}
          \cup {[kind |-> "object", name |-> n] : n \in Names}

\* Date.prototype.toISOString: the text form kept in column A
ToISOString(t) == [fmt |-> "iso", ms |-> t]

\* parseTimestamp of the sync route: ISO text parses to its instant, anything
\* it cannot parse becomes the current time
ParseTimestamp(ts, now) == IF ts.fmt = "iso" THEN ts.ms ELSE now

\* the row appendToSheet builds (columns A and B; the rest carry no control flow)
SheetRowOf(name, now) == [ts |-> ToISOString(now), name |-> name]

\* sheets as they may be before the model starts: up to MaxInitRows rows at
\* distinct old instants, each with or without a student name in column B
InitSheets ==
  UNION {{[k \in 1..len |-> [ts |-> ToISOString(0 - k), name |-> f[k]]] :
            f \in [1..len -> Names \cup {""}]} : len \in 0..MaxInitRows}

\* the table before the model starts: empty, or one row left by an earlier cycle
InitTables == {{}, {[id |-> 1, ts |-> 0 - 1, name |-> "Asha", via |-> "sync"]}}

NoResp == [status |-> 0]

\* ------------------------------------------- POST /webhook/viva-result
WhIdle == [pc |-> "idle", body |-> [kind |-> "null", name |-> ""], ts |-> 0,
           dbLeg |-> "pending", sheetLeg |-> "pending", first |-> "none",
           resp |-> NoResp]

\* POST up to Promise.all: request.json(), the studentName check, and the
\* synchronous start of both legs. A malformed body makes request.json() throw
\* and a null body makes result.studentName throw: both reach the catch (500).
WebhookReceive(body) ==
  /\ wh.pc \in {"idle", "responded"}
  /\ clock < MaxRequests
  /\ clock' = clock + 1
  /\ wh' = IF body.kind \in {"invalid", "null"}
             THEN [WhIdle EXCEPT !.pc = "responded", !.body = body,
                     !.resp = [status |-> 500, error |-> "Failed to process viva result"]]
           ELSE IF body.name = ""
             THEN [WhIdle EXCEPT !.pc = "responded", !.body = body,
                     !.resp = [status |-> 400, error |-> "Student name is required"]]
           ELSE [WhIdle EXCEPT !.pc = "running", !.body = body, !.ts = clock + 1]
  /\ UNCHANGED <<db, nextId, sheet, sheetIdSet, sync, rd>>

\* saveToDatabase: the INSERT succeeds or throws; a throw is caught and
\* reported as false (wh.first is history: the leg that settled first)
saveToDatabase(ok) ==
  /\ wh.pc = "running" /\ wh.dbLeg = "pending"
  /\ IF ok
       THEN /\ db' = db \cup {[id |-> nextId, ts |-> wh.ts,
                               name |-> wh.body.name, via |-> "webhook"]}
            /\ nextId' = nextId + 1
            /\ wh' = [wh EXCEPT !.dbLeg = "ok",
                        !.first = IF wh.sheetLeg = "pending" THEN "db" ELSE @]
       ELSE /\ wh' = [wh EXCEPT !.dbLeg = "fail",
                        !.first = IF wh.sheetLeg = "pending" THEN "db" ELSE @]
            /\ UNCHANGED <<db, nextId>>
  /\ UNCHANGED <<sheet, clock, sheetIdSet, sync, rd>>

\* mutant: one transaction over both stores, a failed append undoes the insert
appendToSheet_rollback(outcome) ==
  /\ wh.pc = "running" /\ wh.sheetLeg = "pending"
  /\ IF outcome = "ok"
       THEN /\ sheet' = Append(sheet, SheetRowOf(wh.body.name, wh.ts))
            /\ wh' = [wh EXCEPT !.sheetLeg = "ok"]
            /\ UNCHANGED db
       ELSE /\ wh' = [wh EXCEPT !.sheetLeg = "fail"]
            /\ db' = {r \in db : ~(r.via = "webhook" /\ r.ts = wh.ts)}
            /\ UNCHANGED sheet
  /\ UNCHANGED <<nextId, clock, sheetIdSet, sync, rd>>

\* appendToSheet: no access token, or a throw of the token fetch or of the
\* append, gives false; otherwise one row is appended
appendToSheet(outcome) ==
  /\ wh.pc = "running" /\ wh.sheetLeg = "pending"
  /\ IF outcome = "ok"
       THEN /\ sheet' = Append(sheet, SheetRowOf(wh.body.name, wh.ts))
            /\ wh' = [wh EXCEPT !.sheetLeg = "ok",
                        !.first = IF wh.dbLeg = "pending" THEN "sheet" ELSE @]
       ELSE /\ wh' = [wh EXCEPT !.sheetLeg = "fail",
                        !.first = IF wh.dbLeg = "pending" THEN "sheet" ELSE @]
            /\ UNCHANGED sheet
  /\ UNCHANGED <<db, nextId, clock, sheetIdSet, sync, rd>>

\* mutant: savedToDatabase reported only when both writes succeeded
WebhookRespond_bothOrNone ==
  /\ wh.pc = "running" /\ wh.dbLeg # "pending" /\ wh.sheetLeg # "pending"
  /\ wh' = [wh EXCEPT !.pc = "responded",
              !.resp = [status |-> 200, success |-> TRUE,
                        savedToDatabase |-> (wh.dbLeg = "ok" /\ wh.sheetLeg = "ok"),
                        savedToSheet |-> (wh.sheetLeg = "ok")]]
  /\ UNCHANGED <<db, nextId, sheet, clock, sheetIdSet, sync, rd>>

\* POST after Promise.all resolved: the 200 response with both flags
WebhookRespond ==
  /\ wh.pc = "running" /\ wh.dbLeg # "pending" /\ wh.sheetLeg # "pending"
  /\ wh' = [wh EXCEPT !.pc = "responded",
              !.resp = [status |-> 200, success |-> TRUE,
                        savedToDatabase |-> (wh.dbLeg = "ok"),
                        savedToSheet |-> (wh.sheetLeg = "ok")]]
  /\ UNCHANGED <<db, nextId, sheet, clock, sheetIdSet, sync, rd>>

\* --------------------------------------------------- POST /sync-results
SyncIdle == [pc |-> "idle", rows |-> <<>>, i |-> 0, synced |-> 0, n |-> 0,
             pre |-> {}, wiped |-> {}, resp |-> NoResp]

\* the row the cycle inserts for a pulled row
RowFromSheet(row, id, now) ==
  [id |-> id, ts |-> ParseTimestamp(row.ts, now), name |-> row.name, via |-> "sync"]

SyncFail(msg) == [sync EXCEPT !.pc = "failed", !.resp = [status |-> 500, error |-> msg]]

\* a cycle request arrives (sync.pre is history: the table as the cycle found it)
SyncStart ==
  /\ sync.pc \in {"idle", "done", "failed"}
  /\ sync.n < MaxCycles
  /\ sync' = [SyncIdle EXCEPT !.pc = "token", !.n = sync.n + 1, !.pre = db]
  /\ UNCHANGED <<db, nextId, sheet, clock, sheetIdSet, wh, rd>>

\* getAccessToken: a token, undefined (500 "No Google Sheets access"), or a throw
SyncGetAccessToken(outcome) ==
  /\ sync.pc = "token"
  /\ sync' = CASE outcome = "ok" -> [sync EXCEPT !.pc = "pull"]
               [] outcome = "none" -> SyncFail("No Google Sheets access")
               [] OTHER -> SyncFail("Failed to sync results")
  /\ UNCHANGED <<db, nextId, sheet, clock, sheetIdSet, wh, rd>>

\* mutant: the table is truncated before the rows are pulled
SyncPull_truncatesFirst(ok) ==
  /\ sync.pc = "pull"
  /\ db' = {}
  /\ sync' = IF ok THEN [sync EXCEPT !.pc = "truncate", !.rows = sheet]
                   ELSE SyncFail("Failed to sync results")
  /\ UNCHANGED <<nextId, sheet, clock, sheetIdSet, wh, rd>>

\* values.get of 'Viva Results'!A2:K
SyncPull(ok) ==
  /\ sync.pc = "pull"
  /\ sync' = IF ok THEN [sync EXCEPT !.pc = "truncate", !.rows = sheet]
                   ELSE SyncFail("Failed to sync results")
  /\ UNCHANGED <<db, nextId, sheet, clock, sheetIdSet, wh, rd>>

\* mutant: only the rows of earlier cycles are deleted
SyncTruncate_keepsWebhookRows(ok) ==
  /\ sync.pc = "truncate"
  /\ IF ok
       THEN /\ db' = {r \in db : r.via # "sync"}
            /\ sync' = [sync EXCEPT !.pc = "insert", !.i = 1, !.synced = 0, !.wiped = db]
       ELSE /\ sync' = SyncFail("Failed to sync results")
            /\ UNCHANGED db
  /\ UNCHANGED <<nextId, sheet, clock, sheetIdSet, wh, rd>>

\* TRUNCATE TABLE viva_results, in its own implicit transaction
\* (sync.wiped is history: the rows the statement removed)
SyncTruncate(ok) ==
  /\ sync.pc = "truncate"
  /\ IF ok
       THEN /\ db' = {}
            /\ sync' = [sync EXCEPT !.pc = "insert", !.i = 1, !.synced = 0, !.wiped = db]
       ELSE /\ sync' = SyncFail("Failed to sync results")
            /\ UNCHANGED db
  /\ UNCHANGED <<nextId, sheet, clock, sheetIdSet, wh, rd>>

\* mutant: synced is counted for skipped rows too
SyncInsertRow_countsSkipped(ok) ==
  /\ sync.pc = "insert" /\ sync.i <= Len(sync.rows)
  /\ IF sync.rows[sync.i].name = ""
       THEN /\ sync' = [sync EXCEPT !.i = sync.i + 1, !.synced = sync.synced + 1]
            /\ UNCHANGED <<db, nextId>>
       ELSE IF ok
         THEN /\ db' = db \cup {RowFromSheet(sync.rows[sync.i], nextId, clock)}
              /\ nextId' = nextId + 1
              /\ sync' = [sync EXCEPT !.i = sync.i + 1, !.synced = sync.synced + 1]
         ELSE /\ sync' = SyncFail("Failed to sync results")
              /\ UNCHANGED <<db, nextId>>
  /\ UNCHANGED <<sheet, clock, sheetIdSet, wh, rd>>

\* one iteration of the for loop: a row without a student name is skipped,
\* any other row is inserted by its own INSERT statement; a throw ends the
\* cycle with a 500 and leaves what was inserted so far
SyncInsertRow(ok) ==
  /\ sync.pc = "insert" /\ sync.i <= Len(sync.rows)
  /\ IF sync.rows[sync.i].name = ""
       THEN /\ sync' = [sync EXCEPT !.i = sync.i + 1]
            /\ UNCHANGED <<db, nextId>>
       ELSE IF ok
         THEN /\ db' = db \cup {RowFromSheet(sync.rows[sync.i], nextId, clock)}
              /\ nextId' = nextId + 1
              /\ sync' = [sync EXCEPT !.i = sync.i + 1, !.synced = sync.synced + 1]
         ELSE /\ sync' = SyncFail("Failed to sync results")
              /\ UNCHANGED <<db, nextId>>
  /\ UNCHANGED <<sheet, clock, sheetIdSet, wh, rd>>

\* the loop ended: { success: true, synced }
SyncRespond ==
  /\ sync.pc = "insert" /\ sync.i > Len(sync.rows)
  /\ sync' = [sync EXCEPT !.pc = "done",
                !.resp = [status |-> 200, success |-> TRUE, synced |-> sync.synced]]
  /\ UNCHANGED <<db, nextId, sheet, clock, sheetIdSet, wh, rd>>

\* ----------------------------------------------------- GET /viva-results
RdIdle == [pc |-> "idle", dbOk |-> TRUE, rows |-> {}, sheetRead |-> FALSE, resp |-> NoResp]

\* the header row of the sheet, which values.get of A:J returns first
Header == [ts |-> [fmt |-> "header", ms |-> 0], name |-> "Student Name"]

\* one element of the response built from a relational row (route.ts, the map)
DbResult(row) == [id |-> row.id, dateTime |-> ToISOString(row.ts), studentName |-> row.name]

\* mutant: the header row is not dropped
FetchVivaResults_keepsHeader(values) ==
  [k \in 1..Len(values) |->
     [id |-> k, dateTime |-> values[k].ts,
      studentName |-> IF values[k].name = "" THEN "Unknown" ELSE values[k].name]]

\* fetchVivaResults after the read: the header is dropped, every other row is
\* mapped (a missing name becomes "Unknown"); the order of data is not modelled
FetchVivaResults(values) ==
  IF Len(values) <= 1 THEN <<>>
  ELSE [k \in 1..(Len(values) - 1) |->
          [id |-> k, dateTime |-> values[k + 1].ts,
           studentName |-> IF values[k + 1].name = "" THEN "Unknown"
                           ELSE values[k + 1].name]]

\* GET up to the relational branch: the SELECT throws (catch: 500), returns
\* rows (200 from the table alone), or returns none (go on to the sheet)
ReaderQuery(ok) ==
  /\ rd.pc \in {"idle", "responded"}
  /\ rd' = IF ~ok
             THEN [RdIdle EXCEPT !.pc = "responded", !.dbOk = FALSE,
                     !.resp = [status |-> 500, error |-> "Internal server error"]]
           ELSE IF db # {}
             THEN [RdIdle EXCEPT !.pc = "responded", !.rows = db,
                     !.resp = [status |-> 200, success |-> TRUE, source |-> "database",
                               count |-> Cardinality(db),
                               data |-> {DbResult(r) : r \in db}]]
           ELSE [RdIdle EXCEPT !.pc = "sheets"]
  /\ UNCHANGED <<db, nextId, sheet, clock, sheetIdSet, wh, sync>>

\* the fallback: fetchVivaResults fails without GOOGLE_SHEET_ID or when the
\* read throws (500), else the response is built from the sheet
ReaderFetchSheets(ok) ==
  /\ rd.pc = "sheets"
  /\ rd' = IF ~sheetIdSet
             THEN [rd EXCEPT !.pc = "responded",
                     !.resp = [status |-> 500,
                               error |-> "GOOGLE_SHEET_ID environment variable not set"]]
           ELSE IF ~ok
             THEN [rd EXCEPT !.pc = "responded", !.sheetRead = TRUE,
                     !.resp = [status |-> 500, error |-> "Unknown error"]]
           ELSE LET results == FetchVivaResults(<<Header>> \o sheet) IN
                [rd EXCEPT !.pc = "responded", !.sheetRead = TRUE,
                   !.resp = [status |-> 200, success |-> TRUE, source |-> "google_sheets",
                             count |-> Len(results),
                             data |-> {results[k] : k \in 1..Len(results)}]]
  /\ UNCHANGED <<db, nextId, sheet, clock, sheetIdSet, wh, sync>>

\* --------------------------------------------------- timestamp normalizer
\* A timestamp text, by the features the normalizers look at:
\*   empty      ""
\*   iso        '2026-01-15T10:11:35Z': has 'T' and 'Z', new Date reads instant t
\*   isoBad     has 'T' and 'Z' (or '+') but is no date, 'Tomorrow (Zoom)'
\*   formatted  'D Mon 2026[,] H:MM[:SS] [am|pm]'
\*   slash      'M/D/2026' (mon is the first group, day the second)
\*   generic    only new Date reads it ('January 15, 2026 10:41'), instant t
\*   garbage    nothing reads it
\* Instants are seconds since the epoch; the zone is UTC; all texts lie in
\* January or February 2026.
Months == {"jan", "feb"}

TsBlank == [kind |-> "empty", mon |-> "jan", day |-> 1, hour |-> 0, minute |-> 0,
            second |-> 0, hasSec |-> FALSE, comma |-> FALSE, ampm |-> "none", t |-> 0]

\* new Date(2026, month, day, hour, minute, second).getTime(), in seconds;
\* fields past their range roll over, as the Date constructor does
MakeDate(mon, day, hour, minute, second) ==
  1767225600 + ((((IF mon = "jan" THEN 0 ELSE 31) + day - 1) * 24 + hour) * 60 + minute) * 60
             + second

FormattedTexts ==
  {[TsBlank EXCEPT !.kind = "formatted", !.mon = m, !.day = d, !.hour = h,
                   !.minute = mi, !.second = IF hs THEN 30 ELSE 0, !.hasSec = hs,
                   !.comma = c, !.ampm = ap] :
     m \in Months, d \in {1, 15}, h \in 0..MaxHour, mi \in {0, 41},
     hs \in BOOLEAN, c \in BOOLEAN, ap \in {"am", "pm", "none"}}

TimestampTexts ==
  {[TsBlank EXCEPT !.kind = k] : k \in {"empty", "isoBad", "garbage"}}
    \cup {[TsBlank EXCEPT !.kind = k, !.t = MakeDate("jan", 15, 10, 11, 35)] :
            k \in {"iso", "generic"}}
    \cup {[TsBlank EXCEPT !.kind = "slash", !.mon = m, !.day = d] :
            m \in Months, d \in {1, 15}}
    \cup FormattedTexts

\* a Date: a time value or NaN (Invalid Date)
At(t) == [valid |-> TRUE, t |-> t]
NaN == [valid |-> FALSE, t |-> 0]

\* ts.includes('T') && (ts.includes('Z') || ts.includes('+'))
IncludesIsoMarks(ts) == ts.kind \in {"iso", "isoBad"}

\* new Date(ts) on text, as the runtime's parser reads it: ISO and the legacy
\* formats give a time value (a 12-hour clock with am/pm takes hours 0..12, a
\* 24-hour clock hours 0..23), anything else is an Invalid Date
DateParse(ts) ==
  CASE ts.kind \in {"iso", "generic"} -> At(ts.t)
    [] ts.kind = "slash" -> At(MakeDate(ts.mon, ts.day, 0, 0, 0))
    [] ts.kind = "formatted" ->
         IF ts.ampm = "none"
           THEN IF ts.hour <= 23
                  THEN At(MakeDate(ts.mon, ts.day, ts.hour, ts.minute, ts.second))
                  ELSE NaN
           ELSE IF ts.hour <= 12
                  THEN At(MakeDate(ts.mon, ts.day,
                                   (ts.hour % 12) + (IF ts.ampm = "pm" THEN 12 ELSE 0),
                                   ts.minute, ts.second))
                  ELSE NaN
    [] OTHER -> NaN

\* mutant: pm always adds 12
Hour24_pmAlwaysAdds(hour, ampm) ==
  IF ampm = "pm" THEN hour + 12
  ELSE IF ampm = "am" /\ hour = 12 THEN 0
  ELSE hour

\* let hour24 = parseInt(hour, 10); the two am/pm adjustments
Hour24(hour, ampm) ==
  IF ampm = "pm" /\ hour # 12 THEN hour + 12
  ELSE IF ampm = "am" /\ hour = 12 THEN 0
  ELSE hour

\* mutant: the generic parse of step 4 is gone, unmatched text is "now"
parseTimestamp_noGenericParse(ts, now) ==
  IF ts.kind = "empty" THEN At(now)
  ELSE IF IncludesIsoMarks(ts) /\ DateParse(ts).valid THEN DateParse(ts)
  ELSE IF ts.kind = "formatted"
    THEN At(MakeDate(ts.mon, ts.day, Hour24(ts.hour, ts.ampm), ts.minute, ts.second))
  ELSE IF ts.kind = "slash" THEN At(MakeDate(ts.mon, ts.day, 0, 0, 0))
  ELSE At(now)

\* parseTimestamp of the sync route and of scripts/sync-sheets-to-db.ts (the
\* same text in both): empty text is "now"; ISO if it parses; the
\* 'D Mon YYYY' pattern with optional comma, seconds and am/pm; the slash
\* pattern; the generic parse; "now"
parseTimestamp(ts, now) ==
  IF ts.kind = "empty" THEN At(now)
  ELSE IF IncludesIsoMarks(ts) /\ DateParse(ts).valid THEN DateParse(ts)
  ELSE IF ts.kind = "formatted"
    THEN At(MakeDate(ts.mon, ts.day, Hour24(ts.hour, ts.ampm), ts.minute, ts.second))
  ELSE IF ts.kind = "slash" THEN At(MakeDate(ts.mon, ts.day, 0, 0, 0))
  ELSE IF DateParse(ts).valid THEN DateParse(ts)
  ELSE At(now)

\* the pattern of the sort helper: comma, no seconds and am/pm are required
MatchesSortPattern(ts) ==
  ts.kind = "formatted" /\ ts.comma /\ ~ts.hasSec /\ ts.ampm # "none"

\* parseTimestamp inside the comparator of getVivaResults: empty text is 0;
\* ISO marks give new Date(ts).getTime() unchecked; the strict pattern; the
\* generic parse, 0 when it fails
parseTimestampSort(ts) ==
  IF ts.kind = "empty" THEN At(0)
  ELSE IF IncludesIsoMarks(ts) THEN DateParse(ts)
  ELSE IF MatchesSortPattern(ts)
    THEN At(MakeDate(ts.mon, ts.day, Hour24(ts.hour, ts.ampm), ts.minute, 0))
  ELSE IF DateParse(ts).valid THEN DateParse(ts)
  ELSE At(0)

\* the clock when the normalizers are first exercised
TimeStart == MakeDate("feb", 20, 9, 0, 0)

\* a second passes
TimeTick ==
  /\ tsNow < TimeStart + MaxTicks
  /\ tsNow' = tsNow + 1
  /\ UNCHANGED <<tsText, tsCalls>>

\* the text is normalized by the route's function and by the sort helper
NormalizeCall ==
  /\ Len(tsCalls) < MaxNormCalls
  /\ tsCalls' = Append(tsCalls, [at |-> tsNow,
                                 route |-> parseTimestamp(tsText, tsNow),
                                 sort |-> parseTimestampSort(tsText)])
  /\ UNCHANGED <<tsText, tsNow>>

\* the normalizers at rest (the state of the specifications of the handlers)
TimeOff == tsText = TsBlank /\ tsNow = TimeStart /\ tsCalls = <<>>

\* ---------------------------------------------------- order of a listing
\* the difference of two getTime() values: NaN when either is
Minus(x, y) == IF x.valid /\ y.valid THEN At(x.t - y.t) ELSE NaN

\* comparator of fetchVivaResults: dateB.getTime() - dateA.getTime()
CompareFetch(a, b) == Minus(DateParse(b), DateParse(a))

\* comparator of getVivaResults: parseTimestamp(b.timestamp) - parseTimestamp(a.timestamp)
CompareResults(a, b) == Minus(parseTimestampSort(b), parseTimestampSort(a))

\* Array.prototype.sort on n rows, cmp[i][j] being what the comparator
\* returns for rows i and j: the orders (as permutations of the indexes) it
\* may leave the rows in. With a comparator that is consistent on the rows,
\* those in which no row comes before one it compares greater than; with one
\* that is not (it returns NaN for some pair), the order is
\* implementation-defined.
SortOrders(n, cmp) ==
  LET consistent == \A i, j \in 1..n : cmp[i][j].valid
  IN {p \in Permutations(1..n) :
        consistent => \A i, j \in 1..n : i < j => cmp[p[i]][p[j]].t <= 0}

\* SELECT ... ORDER BY timestamp DESC over the rows a reconciliation inserted
\* at instant now: descending by the stored instant
OrderByTimestampDesc(rows, now) ==
  {p \in Permutations(1..Len(rows)) :
     \A i, j \in 1..Len(rows) :
       i < j => parseTimestamp(rows[p[i]], now).t >= parseTimestamp(rows[p[j]], now).t}

\* the texts a listing is exercised on: ISO, the formatted pattern in the
\* morning and in the afternoon, with and without comma and marker, empty
\* and unreadable text
ListTexts ==
  {[TsBlank EXCEPT !.kind = "iso", !.t = MakeDate("jan", 15, 10, 11, 35)],
   [TsBlank EXCEPT !.kind = "formatted", !.day = 15, !.hour = 3, !.minute = 38,
                   !.comma = TRUE, !.ampm = "pm"],
   [TsBlank EXCEPT !.kind = "formatted", !.day = 15, !.hour = 10, !.minute = 41,
                   !.comma = TRUE, !.ampm = "am"],
   [TsBlank EXCEPT !.kind = "formatted", !.mon = "feb", !.day = 1, !.hour = 9],
   [TsBlank EXCEPT !.kind = "empty"],
   [TsBlank EXCEPT !.kind = "garbage"]}

\* GET /viva-results, rows in the table
ListFromDatabase(p) ==
  /\ lsRows # <<>>
  /\ p \in OrderByTimestampDesc(lsRows, TimeStart)
  /\ lsOut' = [path |-> "database", order |-> p]
  /\ UNCHANGED lsRows

\* GET /viva-results, table empty: fetchVivaResults
ListFromSheets(p) ==
  /\ p \in SortOrders(Len(lsRows),
                       [i \in 1..Len(lsRows) |->
                          [j \in 1..Len(lsRows) |-> CompareFetch(lsRows[i], lsRows[j])]])
  /\ lsOut' = [path |-> "google_sheets", order |-> p]
  /\ UNCHANGED lsRows

\* getVivaResults of lib/api/sheets.ts
ListGetVivaResults(p) ==
  /\ p \in SortOrders(Len(lsRows),
                       [i \in 1..Len(lsRows) |->
                          [j \in 1..Len(lsRows) |-> CompareResults(lsRows[i], lsRows[j])]])
  /\ lsOut' = [path |-> "getVivaResults", order |-> p]
  /\ UNCHANGED lsRows

NoListing == [path |-> "none", order |-> <<>>]

ListOff == lsRows = <<>> /\ lsOut = NoListing

\* ----------------------------------------------------- numeric extraction
\* A text is a sequence of tokens: a digit run of value v ("num"), a digit
\* run of more than 308 digits ("huge"), a blank ("sp"), letters or other
\* characters ("word"), '-' ("minus"), '/' ("slash"). Two digit runs are never
\* adjacent (they would be one run).
NumValues == {0, 5, 49, passingScore, 72, 100}

Tok(t, v) == [t |-> t, v |-> v]

Tokens ==
  {Tok("num", v) : v \in NumValues}
    \cup {Tok(t, 0) : t \in {"huge", "sp", "word", "minus", "slash"}}

IsDigits(tok) == tok.t \in {"num", "huge"}

Texts ==
  {x \in UNION {[1..n -> Tokens] : n \in 0..MaxTokens} :
     \A i \in 1..Len(x) - 1 : ~(IsDigits(x[i]) /\ IsDigits(x[i + 1]))}

\* a field of the payload or a cell of the sheet: absent (undefined, null),
\* a JSON number (a cell gives its digits as text), or text
NumInputs ==
  {[kind |-> "absent", n |-> 0, text |-> <<>>]}
    \cup {[kind |-> "number", n |-> v, text |-> <<>>] : v \in NumValues}
    \cup {[kind |-> "text", n |-> 0, text |-> x] : x \in Texts}

\* a JavaScript number: an integer, NaN or Infinity
IntNum(v) == [k |-> "int", v |-> v]
NumNaN == [k |-> "nan", v |-> 0]
NumInf == [k |-> "inf", v |-> 0]

\* the value of a digit run read in base 10
DigitsValue(tok) == IF tok.t = "huge" THEN NumInf ELSE IntNum(tok.v)

RECURSIVE SkipBlanks(_)
SkipBlanks(x) == IF x # <<>> /\ Head(x).t = "sp" THEN SkipBlanks(Tail(x)) ELSE x

\* parseInt(text, 10): leading blanks, an optional sign, then the digits
\* that follow at once; NaN when there are none there
parseInt(x) ==
  LET y == SkipBlanks(x)
      neg == y # <<>> /\ Head(y).t = "minus"
      z == IF neg THEN Tail(y) ELSE y
  IN IF z = <<>> \/ ~IsDigits(Head(z)) THEN NumNaN
     ELSE IF Head(z).t = "huge" THEN NumInf
     ELSE IntNum(IF neg THEN 0 - Head(z).v ELSE Head(z).v)

\* x || 0
OrZero(r) == IF r.k = "nan" \/ (r.k = "int" /\ r.v = 0) THEN IntNum(0) ELSE r

\* indexes of the digit runs of a text
DigitRuns(x) == {i \in 1..Len(x) : IsDigits(x[i])}

Least(S) == CHOOSE i \in S : \A j \in S : i <= j

\* parseInt(String(cell).match(/(\d+)/)?.[1] || '0', 10)
FirstDigits(x) ==
  IF DigitRuns(x) = {} THEN IntNum(0) ELSE DigitsValue(x[Least(DigitRuns(x))])

\* the text of a cell
CellText(in) ==
  IF in.kind = "number" THEN <<Tok("num", in.n)>> ELSE in.text

\* saveToDatabase: parseInt(result.score) || 0
WebhookNumber(in) ==
  CASE in.kind = "absent" -> IntNum(0)
    [] in.kind = "number" -> OrZero(IntNum(in.n))
    [] OTHER -> OrZero(parseInt(in.text))

\* the sync route: row[6] ? parseInt(String(row[6]).match(/(\d+)/)?.[1] || '0', 10) : 0
SyncNumber(in) ==
  IF CellText(in) = <<>> THEN IntNum(0) ELSE FirstDigits(CellText(in))

\* parseScore and parseQuestionsCount of lib/api/sheets.ts
parseScoreApi(in) ==
  IF CellText(in) = <<>> THEN IntNum(0) ELSE FirstDigits(CellText(in))

\* parseScore of lib/sheets.ts: the digit run in front of the first '/100',
\* else parseInt of the whole text, 0 when that is NaN
parseScore(in) ==
  LET x == CellText(in)
      hits == {i \in DigitRuns(x) :
                 /\ i + 2 <= Len(x) /\ x[i + 1].t = "slash"
                 /\ x[i + 2] = Tok("num", 100)}
  IN IF x = <<>> THEN IntNum(0)
     ELSE IF hits # {} THEN DigitsValue(x[Least(hits)])
     ELSE IF parseInt(x).k = "nan" THEN IntNum(0) ELSE parseInt(x)

NoNum == [k |-> "none", v |-> 0]

\* saveToDatabase binds the value to $6 / $7 and issues the INSERT; the
\* integer column rejects a parameter that is not an integer, the throw is
\* caught and the leg reports false
WebhookExtract ==
  /\ numOut.webhook = NoNum
  /\ numOut' = [numOut EXCEPT !.webhook = WebhookNumber(numIn),
                              !.saved = (WebhookNumber(numIn).k = "int")]
  /\ UNCHANGED numIn

\* the sync route extracts the number of a pulled row
SyncExtract ==
  /\ numOut.sync = NoNum /\ numIn.kind # "number"
  /\ numOut' = [numOut EXCEPT !.sync = SyncNumber(numIn)]
  /\ UNCHANGED numIn

\* fetchVivaResults: parseScore(row[6] || "0")
FetchExtract ==
  /\ numOut.fetch = NoNum /\ numIn.kind # "number"
  /\ numOut' = [numOut EXCEPT !.fetch =
                  IF CellText(numIn) = <<>> THEN IntNum(0) ELSE parseScore(numIn)]
  /\ UNCHANGED numIn

\* getVivaResults: parseScore(row[6]), parseQuestionsCount(row[5])
ApiExtract ==
  /\ numOut.api = NoNum /\ numIn.kind # "number"
  /\ numOut' = [numOut EXCEPT !.api = parseScoreApi(numIn)]
  /\ UNCHANGED numIn

NumBlank == [kind |-> "absent", n |-> 0, text |-> <<>>]
NumIdle == [webhook |-> NoNum, saved |-> FALSE, sync |-> NoNum, fetch |-> NoNum,
            api |-> NoNum]

NumOff == numIn = NumBlank /\ numOut = NumIdle

\* ------------------------------------- rows, evaluation JSON, statistics
\* The text of the evaluation column: "" (empty), "plain" (does not start
\* with '{' or '['), "valid" (JSON), "invalid" (starts with '{' or '[' and
\* is not JSON, '{not json').
EvalTexts == {"", "plain", "valid", "invalid"}

\* JSON.parse
JsonParse(ev) == IF ev = "valid" THEN "object" ELSE "throw"

\* mutant: JSON.parse outside any try
EvaluationOf_noCatch(ev) ==
  IF ev \in {"", "plain"} THEN "absent" ELSE JsonParse(ev)

\* the evaluation of a row: parsed only when the trimmed text starts with
\* '{' or '['; a throw of JSON.parse is caught and leaves it null
EvaluationOf(ev) ==
  IF ev \in {"", "plain"} THEN "absent"
  ELSE IF JsonParse(ev) = "throw" THEN "absent"
  ELSE "object"

\* the result object getVivaResults builds for row k
ResultOf(row, k) ==
  [id |-> k, timestamp |-> row.ts,
   studentName |-> IF row.name = "" THEN "Unknown" ELSE row.name,
   studentEmail |-> row.email,
   subject |-> IF row.subject = "" THEN "Unknown Subject" ELSE row.subject,
   score |-> parseScoreApi(row.score),
   evaluation |-> EvaluationOf(row.ev)]

ReadFailed == [ok |-> FALSE, success |-> FALSE, data |-> <<>>]

\* getVivaResults: the values are read (ok), every row is mapped, the results
\* are sorted (p is the order the sort leaves); any throw is caught at the
\* end and reported as success false
getVivaResults(rows, ok, p) ==
  IF ~ok THEN ReadFailed
  ELSE IF \E k \in 1..Len(rows) : ResultOf(rows[k], k).evaluation = "throw"
    THEN [ok |-> TRUE, success |-> FALSE, data |-> <<>>]
  ELSE [ok |-> TRUE, success |-> TRUE,
        data |-> [j \in 1..Len(rows) |-> ResultOf(rows[p[j]], p[j])]]

\* the orders the sort of getVivaResults may leave the rows in
ResultOrders(rows) ==
  SortOrders(Len(rows),
             [i \in 1..Len(rows) |->
                [j \in 1..Len(rows) |-> CompareResults(rows[i].ts, rows[j].ts)]])

\* mutant: a score passes only above the passing score
Passes_strict(score) == score > passingScore

\* r.score >= passingScore
Passes(score) == score >= passingScore

\* Math.round(n / d) for n >= 0 and d > 0
Round(n, d) == (2 * n + d) \div (2 * d)

RECURSIVE SumSeq(_)
SumSeq(q) == IF q = <<>> THEN 0 ELSE Head(q) + SumSeq(Tail(q))

\* the loop over the results: subjectMap after the first n of them
RECURSIVE SubjectMap(_, _)
SubjectMap(results, n) ==
  IF n = 0 THEN [x \in {} |-> 0]
  ELSE LET m == SubjectMap(results, n - 1)
           r == results[n]
           old == IF r.subject \in DOMAIN m THEN m[r.subject]
                  ELSE [scores |-> <<>>, passed |-> 0, count |-> 0]
           new == [scores |-> Append(old.scores, r.score.v),
                   passed |-> old.passed + (IF Passes(r.score.v) THEN 1 ELSE 0),
                   count |-> old.count + 1]
       IN [x \in DOMAIN m \cup {r.subject} |-> IF x = r.subject THEN new ELSE m[x]]

\* getVivaStats on what getVivaResults returned
getVivaStats(res) ==
  IF ~res.success THEN [success |-> FALSE]
  ELSE LET results == res.data
           totalVivas == Len(results)
           totalPassed == Cardinality({k \in 1..Len(results) : Passes(results[k].score.v)})
           m == SubjectMap(results, Len(results))
       IN [success |-> TRUE,
           totalVivas |-> totalVivas,
           totalPassed |-> totalPassed,
           totalFailed |-> totalVivas - totalPassed,
           avgScore |-> IF totalVivas > 0
                          THEN Round(SumSeq([k \in 1..Len(results) |-> results[k].score.v]),
                                     totalVivas)
                          ELSE 0,
           subjectStats |->
             [x \in DOMAIN m |->
                [count |-> m[x].count,
                 avgScore |-> IF m[x].count > 0
                                THEN Round(SumSeq(m[x].scores), m[x].count) ELSE 0,
                 passRate |-> IF m[x].count > 0
                                THEN Round(m[x].passed * 100, m[x].count) ELSE 0]],
           recentResults |-> results]

\* ------------------------------------------------------ student summaries
\* the e-mail texts of column C: two spellings of one address, another
\* address, and the empty cell
Emails == {"asha@x.com", "Asha@X.com", "ravi@x.com", ""}

\* String.prototype.toLowerCase on the texts of the model
LowerCased ==
  ("Asha@X.com" :> "asha@x.com") @@ ("Optics" :> "optics") @@ ("Waves" :> "waves")
    @@ ("Physics" :> "physics") @@ ("Maths" :> "maths")

toLowerCase(e) == IF e \in DOMAIN LowerCased THEN LowerCased[e] ELSE e

\* new Date(a) > new Date(b): false when either is an Invalid Date
DateGreater(a, b) ==
  DateParse(a).valid /\ DateParse(b).valid /\ DateParse(a).t > DateParse(b).t

\* the loop of getStudentsFromResults: studentMap after the first n results,
\* as the sequence of its entries in insertion order; the key is
\* result.studentEmail as it stands
RECURSIVE StudentMap(_, _)
StudentMap(results, n) ==
  IF n = 0 THEN <<>>
  ELSE LET m == StudentMap(results, n - 1)
           r == results[n]
           email == r.studentEmail
           m1 == IF \E i \in 1..Len(m) : m[i].email = email THEN m
                 ELSE Append(m, [email |-> email, name |-> r.studentName,
                                 scores |-> <<>>, lastViva |-> r.timestamp,
                                 subjects |-> {}])
           i == CHOOSE i \in 1..Len(m1) : m1[i].email = email
           last == IF DateGreater(r.timestamp, m1[i].lastViva) THEN r.timestamp
                   ELSE m1[i].lastViva
       IN [m1 EXCEPT ![i] = [email |-> m1[i].email, name |-> m1[i].name,
                             scores |-> Append(m1[i].scores, r.score.v),
                             lastViva |-> last,
                             subjects |-> m1[i].subjects \cup {r.subject}]]

\* getStudentsFromResults on what getVivaResults returned
getStudentsFromResults(res) ==
  IF ~res.success THEN [success |-> FALSE, data |-> <<>>]
  ELSE LET m == StudentMap(res.data, Len(res.data)) IN
       [success |-> TRUE,
        data |-> [i \in 1..Len(m) |->
                    [email |-> m[i].email, name |-> m[i].name,
                     vivasCompleted |-> Len(m[i].scores),
                     avgScore |-> IF Len(m[i].scores) > 0
                                    THEN Round(SumSeq(m[i].scores), Len(m[i].scores))
                                    ELSE 0,
                     lastViva |-> m[i].lastViva,
                     subjects |-> m[i].subjects]]]

\* the result object fetchVivaResults builds for data row k
FetchResultOf(row, k) ==
  [id |-> k, dateTime |-> row.ts,
   studentName |-> IF row.name = "" THEN "Unknown" ELSE row.name,
   email |-> row.email,
   subject |-> IF row.subject = "" THEN "Unknown" ELSE row.subject,
   score |-> IF CellText(row.score) = <<>> THEN IntNum(0) ELSE parseScore(row.score)]

\* the orders the sort of fetchVivaResults may leave the rows in
FetchOrders(rows) ==
  SortOrders(Len(rows),
             [i \in 1..Len(rows) |->
                [j \in 1..Len(rows) |-> CompareFetch(rows[i].ts, rows[j].ts)]])

\* fetchVivaResults of lib/sheets.ts with GOOGLE_SHEET_ID set: the read (ok),
\* the mapping of the data rows, the sort (p is the order it leaves)
fetchVivaResults(rows, ok, p) ==
  IF ~ok THEN ReadFailed
  ELSE [ok |-> TRUE, success |-> TRUE,
        data |-> [j \in 1..Len(rows) |-> FetchResultOf(rows[p[j]], p[j])]]

\* a > b on two date texts of one listing: the empty text is below every
\* other, two ISO texts of toISOString compare as their instants do
TextGreater(a, b) ==
  IF a.kind = "empty" THEN FALSE
  ELSE IF b.kind = "empty" THEN TRUE
  ELSE a.t > b.t

\* the forEach of fetchStudentSummaries: studentMap after the first n
\* results; the key is the lower-cased e-mail
RECURSIVE SummaryMap(_, _)
SummaryMap(results, n) ==
  IF n = 0 THEN <<>>
  ELSE LET m == SummaryMap(results, n - 1)
           r == results[n]
           key == toLowerCase(r.email)
           m1 == IF \E i \in 1..Len(m) : m[i].key = key THEN m
                 ELSE Append(m, [key |-> key, name |-> r.studentName,
                                 email |-> r.email, scores |-> <<>>,
                                 subjects |-> {}, lastDate |-> TsBlank])
           i == CHOOSE i \in 1..Len(m1) : m1[i].key = key
           last == IF m1[i].lastDate.kind = "empty"
                      \/ TextGreater(r.dateTime, m1[i].lastDate)
                     THEN r.dateTime ELSE m1[i].lastDate
       IN [m1 EXCEPT ![i] = [key |-> key, name |-> m1[i].name,
                             email |-> m1[i].email,
                             scores |-> Append(m1[i].scores, r.score.v),
                             subjects |-> m1[i].subjects \cup {r.subject},
                             lastDate |-> last]]

\* the status of a student: pending without scores, at_risk when the
\* rounded average is below 50, else active
StatusOf(scores) ==
  LET avgScore == IF Len(scores) > 0 THEN Round(SumSeq(scores), Len(scores)) ELSE 0
  IN IF Len(scores) = 0 THEN "pending"
     ELSE IF avgScore < 50 THEN "at_risk"
     ELSE "active"

\* the summary of entry i of the map
SummaryOf(m, i) ==
  [id |-> i, name |-> m[i].name, email |-> m[i].email,
   vivasCompleted |-> Len(m[i].scores),
   averageScore |-> IF Len(m[i].scores) > 0
                      THEN Round(SumSeq(m[i].scores), Len(m[i].scores)) ELSE 0,
   subjects |-> m[i].subjects,
   lastVivaDate |-> m[i].lastDate,
   status |-> StatusOf(m[i].scores)]

\* students.sort: a summary without a date goes last, the others descend by
\* localeCompare of the date texts; two summaries without a date compare
\* greater than each other, and their order is implementation-defined
SummaryOrders(m) ==
  {q \in Permutations(1..Len(m)) :
     \A i, j \in 1..Len(m) :
        i < j =>
          \/ m[q[j]].lastDate.kind = "empty"
          \/ /\ m[q[i]].lastDate.kind # "empty"
             /\ ~TextGreater(m[q[j]].lastDate, m[q[i]].lastDate)}

\* fetchStudentSummaries on what fetchVivaResults returned; q is the order
\* the final sort leaves
fetchStudentSummaries(res, q) ==
  IF ~res.success THEN [success |-> FALSE, data |-> <<>>]
  ELSE LET m == SummaryMap(res.data, Len(res.data)) IN
       [success |-> TRUE, data |-> [j \in 1..Len(m) |-> SummaryOf(m, q[j])]]

\* the values the sync route binds for a pulled row
SyncValuesOf(row) ==
  [timestamp |-> row.ts, studentName |-> row.name,
   subject |-> IF row.subject = "" THEN "Unknown Subject" ELSE row.subject,
   score |-> SyncNumber(row.score),
   evaluation |-> IF row.ev = "" THEN "null"
                  ELSE IF EvaluationOf(row.ev) = "object" THEN "json" ELSE "null"]

NoRead == [ok |-> FALSE, success |-> FALSE, data |-> <<>>, done |-> FALSE]
ReadIdle == [read |-> NoRead, stats |-> [success |-> FALSE, done |-> FALSE],
             i |-> 1, inserted |-> <<>>, syncFailed |-> FALSE,
             students |-> [success |-> FALSE, done |-> FALSE],
             summaries |-> [success |-> FALSE, done |-> FALSE],
             results |-> [success |-> FALSE, done |-> FALSE],
             status |-> [pc |-> "idle", count |-> 0, resp |-> NoResp]]

\* a caller reads the results
ReadResults(ok, p) ==
  /\ ~shOut.read.done
  /\ p \in ResultOrders(shRows)
  /\ LET res == getVivaResults(shRows, ok, p) IN
     shOut' = [shOut EXCEPT !.read = [ok |-> res.ok, success |-> res.success,
                                      data |-> res.data, done |-> TRUE]]
  /\ UNCHANGED shRows

\* a caller asks for the statistics
GetVivaStats(ok, p) ==
  /\ ~shOut.stats.done
  /\ p \in ResultOrders(shRows)
  /\ shOut' = [shOut EXCEPT !.stats =
                 [done |-> TRUE, ok |-> ok, order |-> p,
                  out |-> getVivaStats(getVivaResults(shRows, ok, p))]]
  /\ UNCHANGED shRows

\* the loop of the sync route on pulled row i: a row without student name is
\* skipped, the others are inserted; a throw (of the INSERT, or one that
\* escapes the parsing of the row) ends the loop
SyncLoopRow(ok) ==
  /\ ~shOut.syncFailed /\ shOut.i <= Len(shRows)
  /\ LET row == shRows[shOut.i] IN
     shOut' = IF row.name = "" THEN [shOut EXCEPT !.i = @ + 1]
              ELSE IF ~ok \/ EvaluationOf(row.ev) = "throw"
                THEN [shOut EXCEPT !.syncFailed = TRUE]
              ELSE [shOut EXCEPT !.i = @ + 1,
                                 !.inserted = Append(@, [row |-> shOut.i,
                                                         values |-> SyncValuesOf(row)])]
  /\ UNCHANGED shRows

\* GET /students: getStudentsFromResults over getVivaResults
GetStudents(ok, p) ==
  /\ ~shOut.students.done
  /\ p \in ResultOrders(shRows)
  /\ LET out == getStudentsFromResults(getVivaResults(shRows, ok, p)) IN
     shOut' = [shOut EXCEPT !.students =
                 [success |-> out.success, done |-> TRUE, data |-> out.data]]
  /\ UNCHANGED shRows

\* fetchStudentSummaries over fetchVivaResults
FetchStudentSummaries(ok, p, q) ==
  /\ ~shOut.summaries.done
  /\ p \in FetchOrders(shRows)
  /\ LET res == fetchVivaResults(shRows, ok, p) IN
     /\ res.success => q \in SummaryOrders(SummaryMap(res.data, Len(res.data)))
     /\ ~res.success => q = <<>>
     /\ LET out == fetchStudentSummaries(res, q) IN
        shOut' = [shOut EXCEPT !.summaries =
                    [success |-> out.success, done |-> TRUE, data |-> out.data]]
  /\ UNCHANGED shRows

\* GET /results: fetchVivaResults over the sheet
GetResults(ok, p) ==
  /\ ~shOut.results.done
  /\ p \in FetchOrders(shRows)
  /\ LET res == fetchVivaResults(shRows, ok, p) IN
     shOut' = [shOut EXCEPT !.results =
                 [success |-> res.success, done |-> TRUE, data |-> res.data]]
  /\ UNCHANGED shRows

\* mutant: the status request empties the table it counts
SyncStatusCount_clearsTable(ok) ==
  /\ shOut.status.pc = "idle"
  /\ db' = {}
  /\ shOut' = IF ok THEN [shOut EXCEPT !.status.pc = "last",
                                        !.status.count = Cardinality(db)]
              ELSE [shOut EXCEPT !.status.pc = "responded",
                                 !.status.resp = [status |-> 500]]
  /\ UNCHANGED <<nextId, sheet, clock, sheetIdSet, wh, sync, rd, shRows>>

\* GET /sync-results: SELECT COUNT(*) FROM viva_results (a throw: 500)
SyncStatusCount(ok) ==
  /\ shOut.status.pc = "idle"
  /\ shOut' = IF ok THEN [shOut EXCEPT !.status.pc = "last",
                                        !.status.count = Cardinality(db)]
              ELSE [shOut EXCEPT !.status.pc = "responded",
                                 !.status.resp = [status |-> 500]]
  /\ UNCHANGED <<db, nextId, sheet, clock, sheetIdSet, wh, sync, rd, shRows>>

\* GET /sync-results: SELECT MAX(timestamp) FROM viva_results and the answer
SyncStatusLast(ok) ==
  /\ shOut.status.pc = "last"
  /\ shOut' = [shOut EXCEPT !.status.pc = "responded",
                !.status.resp =
                   IF ~ok THEN [status |-> 500]
                   ELSE [status |-> 200, count |-> shOut.status.count,
                         lastResult |->
                           IF db = {} THEN [null |-> TRUE, ts |-> 0]
                           ELSE [null |-> FALSE,
                                 ts |-> CHOOSE t \in {r.ts : r \in db} :
                                          \A r \in db : r.ts <= t]]]
  /\ UNCHANGED <<db, nextId, sheet, clock, sheetIdSet, wh, sync, rd, shRows>>

ReadOff == shRows = <<>> /\ shOut = ReadIdle

\* --------------------------------------------- subjects and topics sheets
\* subject and topic names of a request; "" is the missing field
TopicSubjects == {"Physics"}
TopicNames == {"Optics", "optics", "Waves"}
SubjectNames == {"Physics", "physics", "Maths"}

TopicRow(subject, name, status) == [subject |-> subject, name |-> name, status |-> status]
SubjectRow(name, code, status) == [name |-> name, code |-> code, status |-> status]
BlankTopic == TopicRow("", "", "")
BlankSubject == SubjectRow("", "", "")

\* values.get returns the rows up to the last one that holds a value
RECURSIVE Trimmed(_, _)
Trimmed(rows, blank) ==
  IF rows # <<>> /\ rows[Len(rows)] = blank
    THEN Trimmed(SubSeq(rows, 1, Len(rows) - 1), blank)
  ELSE rows

\* values.update of data row k (sheet row k + 1): the row is replaced, or
\* written past the last row with empty rows in between
SetRow(rows, k, row, blank) ==
  IF k <= Len(rows) THEN [rows EXCEPT ![k] = row]
  ELSE rows \o [j \in 1..(k - Len(rows) - 1) |-> blank] \o <<row>>

\* deleteDimension of data row k: the rows below move up
DeleteRow(rows, k, blank) ==
  IF k > Len(rows) THEN rows
  ELSE Trimmed([j \in 1..(Len(rows) - 1) |-> IF j < k THEN rows[j] ELSE rows[j + 1]],
               blank)

\* row[0]?.toLowerCase() === subject.toLowerCase() &&
\* row[1]?.toLowerCase() === name.toLowerCase(); an empty cell never matches
TopicMatches(row, subject, name) ==
  /\ row.subject # "" /\ row.name # ""
  /\ toLowerCase(row.subject) = toLowerCase(subject)
  /\ toLowerCase(row.name) = toLowerCase(name)

\* rows.findIndex of the topic, counted from 1; 0 when there is none
TopicIndex(rows, subject, name) ==
  LET S == {k \in 1..Len(rows) : TopicMatches(rows[k], subject, name)}
  IN IF S = {} THEN 0 ELSE Least(S)

\* rows.findIndex((row) => row[0] === name), counted from 1
SubjectIndex(rows, name) ==
  LET S == {k \in 1..Len(rows) : rows[k].name = name}
  IN IF S = {} THEN 0 ELSE Least(S)

NoArgs == [subject |-> "", name |-> "", newSubject |-> "", newName |-> ""]

\* a slot before its request arrives. rows is what the request read, k the
\* row it found, wrote whether it has written to a sheet
CatIdle == [op |-> "none", pc |-> "idle", a |-> NoArgs, k |-> 0, status |-> "",
            found |-> {}, wrote |-> FALSE, resp |-> NoResp]

CatRespond(r, status) ==
  catReq' = [catReq EXCEPT ![r].pc = "responded", ![r].resp = [status |-> status]]

\* POST /topics up to the reads: 400 without subject or name. The 'Topics'
\* tab exists, so the read of A1 succeeds and no tab is created
TopicPostStart(r, subject, name) ==
  /\ catReq[r].pc = "idle"
  /\ catReq' = [catReq EXCEPT ![r] =
       IF subject = "" \/ name = ""
         THEN [CatIdle EXCEPT !.op = "topicPost", !.pc = "responded",
                              !.resp = [status |-> 400]]
       ELSE [CatIdle EXCEPT !.op = "topicPost", !.pc = "read",
                            !.a = [NoArgs EXCEPT !.subject = subject, !.name = name]]]
  /\ UNCHANGED <<topicsSheet, subjectsSheet>>

\* POST /topics: the read of A2:B100 and the test for an existing topic
TopicPostRead(r, ok) ==
  /\ catReq[r].op = "topicPost" /\ catReq[r].pc = "read"
  /\ IF ~ok THEN CatRespond(r, 500)
     ELSE IF TopicIndex(topicsSheet, catReq[r].a.subject, catReq[r].a.name) # 0
       THEN CatRespond(r, 400)
     ELSE catReq' = [catReq EXCEPT ![r].pc = "write"]
  /\ UNCHANGED <<topicsSheet, subjectsSheet>>

\* POST /topics: values.append of [subject, name, "active"]
TopicPostAppend(r, ok) ==
  /\ catReq[r].op = "topicPost" /\ catReq[r].pc = "write"
  /\ IF ~ok THEN CatRespond(r, 500) /\ UNCHANGED topicsSheet
     ELSE /\ topicsSheet' = Append(topicsSheet,
                                  TopicRow(catReq[r].a.subject, catReq[r].a.name, "active"))
          /\ catReq' = [catReq EXCEPT ![r].pc = "responded", ![r].wrote = TRUE,
                                      ![r].resp = [status |-> 200]]
  /\ UNCHANGED subjectsSheet

\* DELETE /topics up to the read: 400 without subject or name
TopicDeleteStart(r, subject, name) ==
  /\ catReq[r].pc = "idle"
  /\ catReq' = [catReq EXCEPT ![r] =
       IF subject = "" \/ name = ""
         THEN [CatIdle EXCEPT !.op = "topicDelete", !.pc = "responded",
                              !.resp = [status |-> 400]]
       ELSE [CatIdle EXCEPT !.op = "topicDelete", !.pc = "read",
                            !.a = [NoArgs EXCEPT !.subject = subject, !.name = name]]]
  /\ UNCHANGED <<topicsSheet, subjectsSheet>>

\* DELETE /topics: the read of A2:C100 and findIndex (404 when not found)
TopicDeleteRead(r, ok) ==
  /\ catReq[r].op = "topicDelete" /\ catReq[r].pc = "read"
  /\ LET k == TopicIndex(topicsSheet, catReq[r].a.subject, catReq[r].a.name) IN
     IF ~ok THEN CatRespond(r, 500)
     ELSE IF k = 0 THEN CatRespond(r, 404)
     ELSE catReq' = [catReq EXCEPT ![r].pc = "write", ![r].k = k]
  /\ UNCHANGED <<topicsSheet, subjectsSheet>>

\* DELETE /topics: spreadsheets.get finds the tab, deleteDimension removes
\* the row at the index found by the read
TopicDeleteRow(r, ok) ==
  /\ catReq[r].op = "topicDelete" /\ catReq[r].pc = "write"
  /\ IF ~ok THEN CatRespond(r, 500) /\ UNCHANGED topicsSheet
     ELSE /\ topicsSheet' = DeleteRow(topicsSheet, catReq[r].k, BlankTopic)
          /\ catReq' = [catReq EXCEPT ![r].pc = "responded", ![r].wrote = TRUE,
                                      ![r].resp = [status |-> 200]]
  /\ UNCHANGED subjectsSheet

\* PUT /topics up to the read: 400 without the old or the new pair
TopicPutStart(r, subject, name, newSubject, newName) ==
  /\ catReq[r].pc = "idle"
  /\ catReq' = [catReq EXCEPT ![r] =
       IF subject = "" \/ name = "" \/ newSubject = "" \/ newName = ""
         THEN [CatIdle EXCEPT !.op = "topicPut", !.pc = "responded",
                              !.resp = [status |-> 400]]
       ELSE [CatIdle EXCEPT !.op = "topicPut", !.pc = "read",
                            !.a = [subject |-> subject, name |-> name,
                                   newSubject |-> newSubject, newName |-> newName]]]
  /\ UNCHANGED <<topicsSheet, subjectsSheet>>

\* PUT /topics: the read, findIndex of the old pair (404), and, when the
\* pair changes, the test for another row holding the new pair (400)
TopicPutRead(r, ok) ==
  /\ catReq[r].op = "topicPut" /\ catReq[r].pc = "read"
  /\ LET a == catReq[r].a
         rows == topicsSheet
         k == TopicIndex(rows, a.subject, a.name)
         exists == \E j \in 1..Len(rows) :
                     TopicMatches(rows[j], a.newSubject, a.newName) /\ j # k
     IN IF ~ok THEN CatRespond(r, 500)
        ELSE IF k = 0 THEN CatRespond(r, 404)
        ELSE IF (a.subject # a.newSubject \/ a.name # a.newName) /\ exists
          THEN CatRespond(r, 400)
        ELSE catReq' = [catReq EXCEPT ![r].pc = "write", ![r].k = k,
                          ![r].status = IF rows[k].status = "" THEN "active"
                                        ELSE rows[k].status]
  /\ UNCHANGED <<topicsSheet, subjectsSheet>>

\* PUT /topics: values.update of the row at the index found by the read
TopicPutUpdate(r, ok) ==
  /\ catReq[r].op = "topicPut" /\ catReq[r].pc = "write"
  /\ IF ~ok THEN CatRespond(r, 500) /\ UNCHANGED topicsSheet
     ELSE /\ topicsSheet' = SetRow(topicsSheet, catReq[r].k,
                                  TopicRow(catReq[r].a.newSubject, catReq[r].a.newName,
                                           catReq[r].status),
                                  BlankTopic)
          /\ catReq' = [catReq EXCEPT ![r].pc = "responded", ![r].wrote = TRUE,
                                      ![r].resp = [status |-> 200]]
  /\ UNCHANGED subjectsSheet

\* POST /subjects up to the append: 400 without a name. The 'Subjects' tab
\* exists; nothing looks for a row of that name
SubjectPostStart(r, name) ==
  /\ catReq[r].pc = "idle"
  /\ catReq' = [catReq EXCEPT ![r] =
       IF name = ""
         THEN [CatIdle EXCEPT !.op = "subjectPost", !.pc = "responded",
                              !.resp = [status |-> 400]]
       ELSE [CatIdle EXCEPT !.op = "subjectPost", !.pc = "write",
                            !.a = [NoArgs EXCEPT !.name = name]]]
  /\ UNCHANGED <<topicsSheet, subjectsSheet>>

\* POST /subjects: values.append of [name, code || "", "active"]
SubjectPostAppend(r, ok) ==
  /\ catReq[r].op = "subjectPost" /\ catReq[r].pc = "write"
  /\ IF ~ok THEN CatRespond(r, 500) /\ UNCHANGED subjectsSheet
     ELSE /\ subjectsSheet' = Append(subjectsSheet,
                                    SubjectRow(catReq[r].a.name, "", "active"))
          /\ catReq' = [catReq EXCEPT ![r].pc = "responded", ![r].wrote = TRUE,
                                      ![r].resp = [status |-> 200]]
  /\ UNCHANGED topicsSheet

\* DELETE /subjects up to the read: 400 without a name
SubjectDeleteStart(r, name) ==
  /\ catReq[r].pc = "idle"
  /\ catReq' = [catReq EXCEPT ![r] =
       IF name = ""
         THEN [CatIdle EXCEPT !.op = "subjectDelete", !.pc = "responded",
                              !.resp = [status |-> 400]]
       ELSE [CatIdle EXCEPT !.op = "subjectDelete", !.pc = "read",
                            !.a = [NoArgs EXCEPT !.name = name]]]
  /\ UNCHANGED <<topicsSheet, subjectsSheet>>

\* DELETE /subjects: the read of A2:C100 and findIndex (404 when not found)
SubjectDeleteRead(r, ok) ==
  /\ catReq[r].op = "subjectDelete" /\ catReq[r].pc = "read"
  /\ LET k == SubjectIndex(subjectsSheet, catReq[r].a.name) IN
     IF ~ok THEN CatRespond(r, 500)
     ELSE IF k = 0 THEN CatRespond(r, 404)
     ELSE catReq' = [catReq EXCEPT ![r].pc = "write", ![r].k = k]
  /\ UNCHANGED <<topicsSheet, subjectsSheet>>

\* DELETE /subjects: spreadsheets.get finds the tab, deleteDimension removes
\* the row at the index found by the read
SubjectDeleteRow(r, ok) ==
  /\ catReq[r].op = "subjectDelete" /\ catReq[r].pc = "write"
  /\ IF ~ok THEN CatRespond(r, 500) /\ UNCHANGED subjectsSheet
     ELSE /\ subjectsSheet' = DeleteRow(subjectsSheet, catReq[r].k, BlankSubject)
          /\ catReq' = [catReq EXCEPT ![r].pc = "responded", ![r].wrote = TRUE,
                                      ![r].resp = [status |-> 200]]
  /\ UNCHANGED topicsSheet

\* PUT /subjects up to the read: 400 without the old or the new name
SubjectPutStart(r, oldName, newName) ==
  /\ catReq[r].pc = "idle"
  /\ catReq' = [catReq EXCEPT ![r] =
       IF oldName = "" \/ newName = ""
         THEN [CatIdle EXCEPT !.op = "subjectPut", !.pc = "responded",
                              !.resp = [status |-> 400]]
       ELSE [CatIdle EXCEPT !.op = "subjectPut", !.pc = "read",
                            !.a = [NoArgs EXCEPT !.name = oldName, !.newName = newName]]]
  /\ UNCHANGED <<topicsSheet, subjectsSheet>>

\* PUT /subjects: the read and findIndex of the old name (404); nothing
\* looks for a row of the new name
SubjectPutRead(r, ok) ==
  /\ catReq[r].op = "subjectPut" /\ catReq[r].pc = "read"
  /\ LET k == SubjectIndex(subjectsSheet, catReq[r].a.name) IN
     IF ~ok THEN CatRespond(r, 500)
     ELSE IF k = 0 THEN CatRespond(r, 404)
     ELSE catReq' = [catReq EXCEPT ![r].pc = "write", ![r].k = k,
                       ![r].status = IF subjectsSheet[k].status = "" THEN "active"
                                     ELSE subjectsSheet[k].status]
  /\ UNCHANGED <<topicsSheet, subjectsSheet>>

\* PUT /subjects: values.update of the row at the index found by the read;
\* a rename goes on to the topics of the old name
SubjectPutUpdate(r, ok) ==
  /\ catReq[r].op = "subjectPut" /\ catReq[r].pc = "write"
  /\ IF ~ok THEN CatRespond(r, 500) /\ UNCHANGED subjectsSheet
     ELSE /\ subjectsSheet' = SetRow(subjectsSheet, catReq[r].k,
                                    SubjectRow(catReq[r].a.newName, "", catReq[r].status),
                                    BlankSubject)
          /\ catReq' = IF catReq[r].a.name # catReq[r].a.newName
                         THEN [catReq EXCEPT ![r].pc = "topicsRead", ![r].wrote = TRUE]
                       ELSE [catReq EXCEPT ![r].pc = "responded", ![r].wrote = TRUE,
                                           ![r].resp = [status |-> 200]]
  /\ UNCHANGED topicsSheet

\* PUT /subjects: the read of 'Topics'!A2:C100 and the rows whose subject is
\* the old name; a throw is caught and the request still answers 200
SubjectPutTopicsRead(r, ok) ==
  /\ catReq[r].op = "subjectPut" /\ catReq[r].pc = "topicsRead"
  /\ LET found == {k \in 1..Len(topicsSheet) : topicsSheet[k].subject = catReq[r].a.name}
     IN IF ~ok \/ found = {} THEN CatRespond(r, 200)
        ELSE catReq' = [catReq EXCEPT ![r].pc = "topicsWrite", ![r].found = found]
  /\ UNCHANGED <<topicsSheet, subjectsSheet>>

\* updateCells of column A in the rows found
RenameCells(rows, found, v) ==
  LET n == IF \E k \in found : k > Len(rows)
             THEN CHOOSE k \in found : \A j \in found : j <= k
           ELSE Len(rows)
      old(k) == IF k <= Len(rows) THEN rows[k] ELSE BlankTopic
  IN [k \in 1..n |-> IF k \in found THEN [old(k) EXCEPT !.subject = v] ELSE old(k)]

\* PUT /subjects: spreadsheets.get and the batchUpdate of the topic rows; a
\* throw is caught and the request still answers 200
SubjectPutTopicsWrite(r, ok) ==
  /\ catReq[r].op = "subjectPut" /\ catReq[r].pc = "topicsWrite"
  /\ topicsSheet' = IF ok THEN RenameCells(topicsSheet, catReq[r].found, catReq[r].a.newName)
                    ELSE topicsSheet
  /\ CatRespond(r, 200)
  /\ UNCHANGED subjectsSheet

\* POST of generated questions up to ensureSubjectExists: 400 without a
\* subject; the questions go to their own sheet and table (500 when the
\* sheet write fails)
QuestionSaveStart(r, subject, ok) ==
  /\ catReq[r].pc = "idle"
  /\ catReq' = [catReq EXCEPT ![r] =
       IF subject = ""
         THEN [CatIdle EXCEPT !.op = "questionSave", !.pc = "responded",
                              !.resp = [status |-> 400]]
       ELSE IF ~ok
         THEN [CatIdle EXCEPT !.op = "questionSave", !.pc = "responded",
                              !.resp = [status |-> 500]]
       ELSE [CatIdle EXCEPT !.op = "questionSave", !.pc = "read",
                            !.a = [NoArgs EXCEPT !.name = subject]]]
  /\ UNCHANGED <<topicsSheet, subjectsSheet>>

\* ensureSubjectExists: the read of A2:A100 and the test for the lower-cased
\* name; every throw is caught and the request still answers 200
EnsureSubjectRead(r, ok) ==
  /\ catReq[r].op = "questionSave" /\ catReq[r].pc = "read"
  /\ LET existingSubjects == {toLowerCase(subjectsSheet[k].name) :
                                k \in {j \in 1..Len(subjectsSheet) :
                                         subjectsSheet[j].name # ""}}
     IN IF ~ok \/ toLowerCase(catReq[r].a.name) \in existingSubjects
          THEN CatRespond(r, 200)
        ELSE catReq' = [catReq EXCEPT ![r].pc = "write"]
  /\ UNCHANGED <<topicsSheet, subjectsSheet>>

\* ensureSubjectExists: values.append of [subjectName, "", "active"]
EnsureSubjectAppend(r, ok) ==
  /\ catReq[r].op = "questionSave" /\ catReq[r].pc = "write"
  /\ IF ~ok THEN CatRespond(r, 200) /\ UNCHANGED subjectsSheet
     ELSE /\ subjectsSheet' = Append(subjectsSheet,
                                    SubjectRow(catReq[r].a.name, "", "active"))
          /\ catReq' = [catReq EXCEPT ![r].pc = "responded", ![r].wrote = TRUE,
                                      ![r].resp = [status |-> 200]]
  /\ UNCHANGED topicsSheet

\* the catalogue at rest
CatOff ==
  /\ topicsSheet = <<>> /\ subjectsSheet = <<>>
  /\ catReq = <<>>

\* fetchVapiCalls before its first page
PullIdle == [page |-> 1, allCalls |-> <<>>, out |-> "none"]

\* the listing at rest, every configuration value set
PullOff ==
  /\ connectorSet = TRUE
  /\ platform = [apiKey |-> TRUE, pages |-> <<>>]
  /\ pull = [c \in 1..2 |-> PullIdle]

\* the second POST /sync-results request before it arrives
OtherIdle == [pc |-> "idle", rows |-> <<>>, i |-> 0]

\* no cycle of POST /sync-results observed yet
ConvIdle == [after |-> {}, done |-> FALSE, table |-> {}]

\* ------------------------------------------- the two legs, field by field
\* a text field of the payload: absent (undefined or null), empty, or text
Absent == "absent"

\* x || d
OrText(x, d) == IF x \in {Absent, ""} THEN d ELSE x

\* the evaluation of a payload: absent, an object, or a string
PayloadEvals == {Absent, "object", "string"}

\* JSON.stringify: the text of an object starts with '{'; the text of a
\* string starts with '"'
Stringify(e) == IF e = "object" THEN "valid" ELSE "plain"

\* the payload nothing has been done with
NoRow == [k |-> "none"]
Rejected == [k |-> "rejected"]

\* the parameters saveToDatabase binds to $2..$11; the integer columns
\* reject a value that is not an integer
DirectRow(p) ==
  IF WebhookNumber(p.questionsAnswered).k # "int" \/ WebhookNumber(p.score).k # "int"
    THEN Rejected
  ELSE [k |-> "row",
        name |-> OrText(p.studentName, "Unknown"),
        email |-> OrText(p.studentEmail, ""),
        subject |-> OrText(p.subject, "Unknown Subject"),
        topics |-> OrText(p.topics, ""),
        questionsAnswered |-> WebhookNumber(p.questionsAnswered).v,
        score |-> WebhookNumber(p.score).v,
        feedback |-> OrText(p.overallFeedback, ""),
        transcript |-> OrText(p.transcript, ""),
        recordingUrl |-> OrText(p.recordingUrl, "NULL"),
        evaluation |-> IF p.evaluation = Absent THEN "NULL" ELSE Stringify(p.evaluation)]

\* x?.toString() || '0'
NumberCell(in) ==
  CASE in.kind = "absent" -> <<Tok("num", 0)>>
    [] in.kind = "number" -> <<Tok("num", in.n)>>
    [] OTHER -> IF in.text = <<>> THEN <<Tok("num", 0)>> ELSE in.text

\* the values appendToSheet appends (columns B..K; A is the timestamp)
AppendedValues(p) ==
  [k |-> "cells",
   name |-> OrText(p.studentName, ""),
   email |-> OrText(p.studentEmail, ""),
   subject |-> OrText(p.subject, ""),
   topics |-> OrText(p.topics, ""),
   questionsAnswered |-> NumberCell(p.questionsAnswered),
   score |-> NumberCell(p.score),
   feedback |-> OrText(p.overallFeedback, ""),
   transcript |-> OrText(p.transcript, ""),
   recordingUrl |-> OrText(p.recordingUrl, ""),
   evaluation |-> IF p.evaluation = Absent THEN "" ELSE Stringify(p.evaluation)]

\* row[5] ? parseInt(String(row[5]).match(/(\d+)/)?.[1] || '0', 10) : 0
CellNumber(x) == IF x = <<>> THEN IntNum(0) ELSE FirstDigits(x)

\* the parameters POST /sync-results binds for a pulled row with a name
DerivedRow(c) ==
  IF CellNumber(c.questionsAnswered).k # "int" \/ CellNumber(c.score).k # "int"
    THEN Rejected
  ELSE [k |-> "row",
        name |-> OrText(c.name, "Unknown"),
        email |-> OrText(c.email, ""),
        subject |-> OrText(c.subject, "Unknown Subject"),
        topics |-> OrText(c.topics, ""),
        questionsAnswered |-> CellNumber(c.questionsAnswered).v,
        score |-> CellNumber(c.score).v,
        feedback |-> OrText(c.feedback, ""),
        transcript |-> OrText(c.transcript, ""),
        recordingUrl |-> OrText(c.recordingUrl, "NULL"),
        evaluation |-> IF EvaluationOf(c.evaluation) = "object" THEN "valid" ELSE "NULL"]

\* a payload with nothing but the name
BarePayload ==
  [studentName |-> "Asha", studentEmail |-> Absent, subject |-> Absent,
   topics |-> Absent, questionsAnswered |-> NumBlank, score |-> NumBlank,
   overallFeedback |-> Absent, transcript |-> Absent, recordingUrl |-> Absent,
   evaluation |-> Absent]

DualIdle == [in |-> BarePayload, direct |-> NoRow, cells |-> NoRow, derived |-> NoRow]

\* saveToDatabase
DualSave ==
  /\ dual.direct = NoRow
  /\ dual' = [dual EXCEPT !.direct = DirectRow(dual.in)]

\* appendToSheet
DualAppend ==
  /\ dual.cells = NoRow
  /\ dual' = [dual EXCEPT !.cells = AppendedValues(dual.in)]

\* POST /sync-results reaches the appended row
DualDerive ==
  /\ dual.cells # NoRow /\ dual.derived = NoRow
  /\ dual.cells.name # ""
  /\ dual' = [dual EXCEPT !.derived = DerivedRow(dual.cells)]

DualOff == dual = DualIdle

\* everything but the catalogue at rest
RestOff == PullOff /\ other = OtherIdle /\ conv = ConvIdle /\ DualOff

ExtOff == CatOff /\ RestOff

PureOff == TimeOff /\ ListOff /\ NumOff /\ ReadOff /\ ExtOff

\* ------------------------------------------------------- specification
CycIdle == [pc |-> "idle", calls |-> <<>>, i |-> 0, found |-> FALSE,
            solo |-> FALSE, base |-> FALSE]

Init ==
  /\ db \in InitTables
  /\ nextId = 2
  /\ sheet \in InitSheets
  /\ clock = 0
  /\ sheetIdSet \in BOOLEAN
  /\ wh = WhIdle
  /\ sync = SyncIdle
  /\ rd = RdIdle
  /\ vdb = {}
  /\ vnext = 1
  /\ remote = <<>>
  /\ cyc = [c \in 1..2 |-> CycIdle]
  /\ vruns = 0
  /\ lastRun = [valid |-> FALSE, db |-> {}, calls |-> <<>>]
  /\ PureOff

Next ==
  \/ \E body \in Bodies : WebhookReceive(body) /\ UNCHANGED <<vapiVars, pureVars>>
  \/ \E ok \in BOOLEAN : saveToDatabase(ok) /\ UNCHANGED <<vapiVars, pureVars>>
  \/ \E outcome \in {"ok", "notoken", "throw"} : appendToSheet(outcome) /\ UNCHANGED <<vapiVars, pureVars>>
  \/ WebhookRespond /\ UNCHANGED <<vapiVars, pureVars>>
  \/ SyncStart /\ UNCHANGED <<vapiVars, pureVars>>
  \/ \E outcome \in {"ok", "none", "throw"} : SyncGetAccessToken(outcome) /\ UNCHANGED <<vapiVars, pureVars>>
  \/ \E ok \in BOOLEAN : SyncPull(ok) /\ UNCHANGED <<vapiVars, pureVars>>
  \/ \E ok \in BOOLEAN : SyncTruncate(ok) /\ UNCHANGED <<vapiVars, pureVars>>
  \/ \E ok \in BOOLEAN : SyncInsertRow(ok) /\ UNCHANGED <<vapiVars, pureVars>>
  \/ SyncRespond /\ UNCHANGED <<vapiVars, pureVars>>
  \/ \E ok \in BOOLEAN : ReaderQuery(ok) /\ UNCHANGED <<vapiVars, pureVars>>
  \/ \E ok \in BOOLEAN : ReaderFetchSheets(ok) /\ UNCHANGED <<vapiVars, pureVars>>

Spec == Init /\ [][Next]_vars

\* ------------------------------------------- scripts/auto-sync.ts (upsert)
CallIds == {"c1", "c2"}

\* a call as the platform returns it; content stands for analysis and artifact
Calls == [id : CallIds, status : {"ended", "in-progress"}, content : {"a", "b"}]

\* call lists of up to MaxCalls calls (a paged listing may repeat a call)
CallLists == UNION {[1..len -> Calls] : len \in 0..MaxCalls}

\* extractVivaData: a function of the call alone (timestamp is new Date(createdAt))
extractVivaData(call) == [content |-> call.content, vapiCallId |-> call.id]

\* the timer (or main) starts syncFromVapi; an execution already under way
\* is not waited for (history: cyc[c].solo says that no other execution
\* has been under way since this one started)
VapiStart(c) ==
  /\ cyc[c].pc = "idle"
  /\ vruns < MaxVapiCycles
  /\ vruns' = vruns + 1
  /\ cyc' = [d \in 1..2 |->
       IF d = c THEN [CycIdle EXCEPT !.pc = "fetch",
                        !.solo = \A o \in 1..2 : o # c => cyc[o].pc = "idle"]
       ELSE [cyc[d] EXCEPT !.solo = FALSE, !.base = FALSE]]
  /\ UNCHANGED <<vdb, vnext, remote, lastRun>>

\* fetchVapiCalls: the whole list, the calls read before a non-OK page (k of
\* them; none without VAPI_API_KEY), or a throw of fetch, which syncFromVapi
\* catches. An empty list ends the cycle ("No calls to sync").
\* History: base says that this execution runs alone, on the table and the
\* call list that the last execution to run alone to its end left.
VapiFetch(c, k, ok) ==
  /\ cyc[c].pc = "fetch"
  /\ k \in 0..Len(remote)
  /\ cyc' = [cyc EXCEPT ![c] =
       IF ~ok \/ k = 0 THEN CycIdle
       ELSE [cyc[c] EXCEPT !.pc = "loop", !.calls = SubSeq(remote, 1, k), !.i = 1,
               !.base = /\ cyc[c].solo
                        /\ lastRun.valid
                        /\ lastRun.db = vdb
                        /\ lastRun.calls = SubSeq(remote, 1, k)]]
  /\ UNCHANGED <<vdb, vnext, remote, vruns, lastRun>>

\* loop head for call i: a call that has not ended is skipped; otherwise the
\* SELECT by vapi_call_id runs (a throw ends the cycle in the catch)
VapiSelect(c, ok) ==
  /\ cyc[c].pc = "loop" /\ cyc[c].i <= Len(cyc[c].calls)
  /\ LET call == cyc[c].calls[cyc[c].i] IN
     cyc' = [cyc EXCEPT ![c] =
       IF call.status # "ended" THEN [@ EXCEPT !.i = @ + 1]
       ELSE IF ~ok THEN CycIdle
       ELSE [@ EXCEPT !.pc = "write",
               !.found = (\E r \in vdb : r.callId = call.id)]]
  /\ UNCHANGED <<vdb, vnext, remote, vruns, lastRun>>

\* mutant: the UPDATE has lost its WHERE clause
UpdateByCallId_noWhere(table, data) ==
  {[r EXCEPT !.content = data.content] : r \in table}

\* mutant: the UPDATE is a DELETE of the call's row and of the rows without
\* a call identifier, followed by a re-insert under the same id
UpdateByCallId_dropsUnkeyed(table, data) ==
  {IF r.callId = data.vapiCallId THEN [r EXCEPT !.content = data.content] ELSE r :
     r \in {q \in table : q.callId # "NULL"}}

\* UPDATE ... WHERE vapi_call_id = $12
UpdateByCallId(table, data) ==
  {IF r.callId = data.vapiCallId THEN [r EXCEPT !.content = data.content] ELSE r :
     r \in table}

\* mutant: the vapi_call_id column carries no UNIQUE constraint
VapiWrite_noUnique(c, ok) ==
  /\ cyc[c].pc = "write"
  /\ LET data == extractVivaData(cyc[c].calls[cyc[c].i]) IN
     IF ~ok
       THEN /\ cyc' = [cyc EXCEPT ![c] = CycIdle]
            /\ UNCHANGED <<vdb, vnext>>
     ELSE IF cyc[c].found
       THEN /\ vdb' = UpdateByCallId(vdb, data)
            /\ cyc' = [cyc EXCEPT ![c] = [@ EXCEPT !.pc = "loop", !.i = @ + 1]]
            /\ UNCHANGED vnext
     ELSE /\ vdb' = vdb \cup {[id |-> vnext, callId |-> data.vapiCallId,
                               content |-> data.content]}
          /\ vnext' = vnext + 1
          /\ cyc' = [cyc EXCEPT ![c] = [@ EXCEPT !.pc = "loop", !.i = @ + 1]]
  /\ UNCHANGED <<remote, vruns>>
  /\ UNCHANGED lastRun

\* the UPDATE or the INSERT for call i. vapi_call_id is UNIQUE (added by
\* addVapiCallIdColumn): an INSERT of an identifier already present throws.
VapiWrite(c, ok) ==
  /\ cyc[c].pc = "write"
  /\ LET data == extractVivaData(cyc[c].calls[cyc[c].i])
         dup == \E r \in vdb : r.callId = data.vapiCallId
     IN
     IF ~ok \/ (~cyc[c].found /\ dup)
       THEN /\ cyc' = [cyc EXCEPT ![c] = CycIdle]
            /\ UNCHANGED <<vdb, vnext>>
     ELSE IF cyc[c].found
       THEN /\ vdb' = UpdateByCallId(vdb, data)
            /\ cyc' = [cyc EXCEPT ![c] = [@ EXCEPT !.pc = "loop", !.i = @ + 1]]
            /\ UNCHANGED vnext
     ELSE /\ vdb' = vdb \cup {[id |-> vnext, callId |-> data.vapiCallId,
                               content |-> data.content]}
          /\ vnext' = vnext + 1
          /\ cyc' = [cyc EXCEPT ![c] = [@ EXCEPT !.pc = "loop", !.i = @ + 1]]
  /\ UNCHANGED <<remote, vruns>>
  /\ UNCHANGED lastRun

\* the loop ended: the summary is logged
\* (history: lastRun keeps the table and the list of this completed execution,
\* valid when it ran alone)
VapiDone(c) ==
  /\ cyc[c].pc = "loop" /\ cyc[c].i > Len(cyc[c].calls)
  /\ lastRun' = [valid |-> cyc[c].solo, db |-> vdb, calls |-> cyc[c].calls]
  /\ cyc' = [cyc EXCEPT ![c] = CycIdle]
  /\ UNCHANGED <<vdb, vnext, remote, vruns>>

\* ------------------------------------------------ the paged call listing
\* call k of page p: odd calls have ended, even ones are still in progress
PagedCall(p, k) ==
  [id |-> (p - 1) * PageLimit + k,
   status |-> IF k % 2 = 1 THEN "ended" ELSE "in-progress",
   content |-> "a"]

\* what the platform may answer for page p: a non-OK response, no call, a
\* few calls, one call short of the limit, or as many calls as the limit
PageKinds == {"error", "empty", "short", "under", "full"}

PageOf(kind, p) ==
  [ok |-> kind # "error",
   calls |-> [k \in 1..(CASE kind = "short" -> 2
                           [] kind = "under" -> PageLimit - 1
                           [] kind = "full" -> PageLimit
                           [] OTHER -> 0) |-> PagedCall(p, k)]]

\* the answer to GET /call?limit=100&page=n
PageResponse(n) ==
  IF n <= Len(platform.pages) THEN platform.pages[n] ELSE PageOf("empty", n)

\* mutant: a page below the limit does not end the listing
NextOfPage_untilEmpty(p, calls) ==
  IF calls = <<>> THEN [hasMore |-> FALSE, page |-> p]
  ELSE [hasMore |-> TRUE, page |-> p + 1]

\* the tail of the while body for an OK page: an empty page ends the listing,
\* any other page is kept and the page number moves on; a page below the
\* limit ends the listing too
NextOfPage(p, calls) ==
  IF calls = <<>> THEN [hasMore |-> FALSE, page |-> p]
  ELSE [hasMore |-> Len(calls) >= PageLimit, page |-> p + 1]

\* syncFromVapi on the list fetchVapiCalls returned: an empty list ends the
\* execution ("No calls to sync"), any other list goes to the loop
CycleOn(c, calls) ==
  IF calls = <<>> THEN CycIdle
  ELSE [cyc[c] EXCEPT !.pc = "loop", !.calls = calls, !.i = 1,
          !.base = /\ cyc[c].solo /\ lastRun.valid
                   /\ lastRun.db = vdb /\ lastRun.calls = calls]

\* one turn of fetchVapiCalls: without VAPI_API_KEY it returns [] at once;
\* else it requests the current page. A throw of fetch leaves through the
\* catch of syncFromVapi; a non-OK response returns what was collected; an
\* OK page is handled by the tail of the while body.
FetchPage(c, thrown) ==
  /\ cyc[c].pc = "fetch"
  /\ LET cur == IF pull[c].out = "none" THEN pull[c] ELSE PullIdle
         resp == PageResponse(cur.page)
         nxt == NextOfPage(cur.page, resp.calls)
         all == cur.allCalls \o resp.calls
     IN IF ~platform.apiKey
          THEN /\ pull' = [pull EXCEPT ![c] = [PullIdle EXCEPT !.out = "returned"]]
               /\ cyc' = [cyc EXCEPT ![c] = CycleOn(c, <<>>)]
        ELSE IF thrown
          THEN /\ pull' = [pull EXCEPT ![c] = [cur EXCEPT !.out = "threw"]]
               /\ cyc' = [cyc EXCEPT ![c] = CycIdle]
        ELSE IF ~resp.ok
          THEN /\ pull' = [pull EXCEPT ![c] = [cur EXCEPT !.out = "returned"]]
               /\ cyc' = [cyc EXCEPT ![c] = CycleOn(c, cur.allCalls)]
        ELSE IF nxt.hasMore
          THEN /\ pull' = [pull EXCEPT ![c] = [cur EXCEPT !.page = nxt.page,
                                                          !.allCalls = all]]
               /\ UNCHANGED cyc
        ELSE /\ pull' = [pull EXCEPT ![c] = [page |-> nxt.page, allCalls |-> all,
                                             out |-> "returned"]]
             /\ cyc' = [cyc EXCEPT ![c] = CycleOn(c, all)]
  /\ UNCHANGED <<vdb, vnext, remote, vruns, lastRun, connectorSet, platform>>

\* the table before the script starts: any of a row the webhook left (it
\* carries no call identifier) and a row an earlier cycle wrote for call c1
InitVapiTables == SUBSET {[id |-> 1, callId |-> "NULL", content |-> "w"],
                          [id |-> 2, callId |-> "c1", content |-> "b"]}

VInit ==
  /\ db = {} /\ nextId = 2 /\ sheet = <<>> /\ clock = 0 /\ sheetIdSet = TRUE
  /\ wh = WhIdle /\ sync = SyncIdle /\ rd = RdIdle
  /\ vdb \in InitVapiTables
  /\ vnext = 3
  /\ remote \in CallLists
  /\ cyc = [c \in 1..2 |-> CycIdle]
  /\ vruns = 0
  /\ lastRun = [valid |-> FALSE, db |-> {}, calls |-> <<>>]
  /\ PureOff

VNext ==
  \/ \E c \in 1..2 : VapiStart(c) /\ UNCHANGED <<pipeVars, pureVars>>
  \/ \E c \in 1..2, k \in 0..MaxCalls, ok \in BOOLEAN : VapiFetch(c, k, ok) /\ UNCHANGED <<pipeVars, pureVars>>
  \/ \E c \in 1..2, ok \in BOOLEAN : VapiSelect(c, ok) /\ UNCHANGED <<pipeVars, pureVars>>
  \/ \E c \in 1..2, ok \in BOOLEAN : VapiWrite(c, ok) /\ UNCHANGED <<pipeVars, pureVars>>
  \/ \E c \in 1..2 : VapiDone(c) /\ UNCHANGED <<pipeVars, pureVars>>

SpecVapi == VInit /\ [][VNext]_vars

\* ------------------------------------------- the normalizer on its own
\* the handlers at rest (the state of the specifications of pure functions)
HandlersOff ==
  /\ db = {} /\ nextId = 2 /\ sheet = <<>> /\ clock = 0 /\ sheetIdSet = TRUE
  /\ wh = WhIdle /\ sync = SyncIdle /\ rd = RdIdle
  /\ vdb = {} /\ vnext = 1 /\ remote = <<>>
  /\ cyc = [c \in 1..2 |-> CycIdle] /\ vruns = 0
  /\ lastRun = [valid |-> FALSE, db |-> {}, calls |-> <<>>]

TInit ==
  /\ HandlersOff /\ ExtOff
  /\ tsText \in TimestampTexts
  /\ tsNow = TimeStart
  /\ tsCalls = <<>>
  /\ ListOff /\ NumOff /\ ReadOff

TNext ==
  \/ TimeTick /\ UNCHANGED <<pipeVars, vapiVars, listVars, numVars, readVars, extVars>>
  \/ NormalizeCall /\ UNCHANGED <<pipeVars, vapiVars, listVars, numVars, readVars, extVars>>

SpecTime == TInit /\ [][TNext]_vars

\* ---------------------------------------------- the listings on their own
LInit ==
  /\ HandlersOff /\ ExtOff /\ TimeOff /\ NumOff /\ ReadOff
  /\ lsRows \in UNION {[1..n -> ListTexts] : n \in 0..MaxListRows}
  /\ lsOut = NoListing

LNext ==
  \/ \E p \in Permutations(1..Len(lsRows)) :
       ListFromDatabase(p) /\ UNCHANGED <<pipeVars, vapiVars, timeVars, numVars, readVars, extVars>>
  \/ \E p \in Permutations(1..Len(lsRows)) :
       ListFromSheets(p) /\ UNCHANGED <<pipeVars, vapiVars, timeVars, numVars, readVars, extVars>>
  \/ \E p \in Permutations(1..Len(lsRows)) :
       ListGetVivaResults(p) /\ UNCHANGED <<pipeVars, vapiVars, timeVars, numVars, readVars, extVars>>

SpecList == LInit /\ [][LNext]_vars

\* ------------------------------------- numeric extraction on its own
NInit ==
  /\ HandlersOff /\ ExtOff /\ TimeOff /\ ListOff /\ ReadOff
  /\ numIn \in NumInputs
  /\ numOut = NumIdle

NNext ==
  \/ WebhookExtract /\ UNCHANGED <<pipeVars, vapiVars, timeVars, listVars, readVars, extVars>>
  \/ SyncExtract /\ UNCHANGED <<pipeVars, vapiVars, timeVars, listVars, readVars, extVars>>
  \/ FetchExtract /\ UNCHANGED <<pipeVars, vapiVars, timeVars, listVars, readVars, extVars>>
  \/ ApiExtract /\ UNCHANGED <<pipeVars, vapiVars, timeVars, listVars, readVars, extVars>>

SpecNum == NInit /\ [][NNext]_vars

\* ------------------------------------ the evaluation column on its own
IsoText == [TsBlank EXCEPT !.kind = "iso", !.t = MakeDate("jan", 15, 10, 11, 35)]

ScoreCell(x) == [kind |-> "text", n |-> 0, text |-> x]

EvalRows ==
  [ts : {IsoText, TsBlank}, name : {"", "Asha"}, email : {"asha@x.com"},
   subject : {"Physics"},
   score : {ScoreCell(<<Tok("num", 72)>>)}, ev : EvalTexts]

EInit ==
  /\ HandlersOff /\ ExtOff /\ TimeOff /\ ListOff /\ NumOff
  /\ shRows \in UNION {[1..n -> EvalRows] : n \in 0..MaxEvalRows}
  /\ shOut = ReadIdle

ENext ==
  \/ \E ok \in BOOLEAN, p \in Permutations(1..Len(shRows)) :
       ReadResults(ok, p) /\ UNCHANGED <<pipeVars, vapiVars, timeVars, listVars, numVars, extVars>>
  \/ \E ok \in BOOLEAN :
       SyncLoopRow(ok) /\ UNCHANGED <<pipeVars, vapiVars, timeVars, listVars, numVars, extVars>>

SpecEval == EInit /\ [][ENext]_vars

\* ------------------------------------------- the statistics on their own
StatRows ==
  [ts : {IsoText}, name : {"Asha"}, email : {"asha@x.com"},
   subject : {"", "Physics", "Maths"},
   score : {NumBlank, ScoreCell(<<Tok("num", 49)>>),
            ScoreCell(<<Tok("num", passingScore), Tok("slash", 0), Tok("num", 100)>>)},
   ev : {""}]

SInit ==
  /\ HandlersOff /\ ExtOff /\ TimeOff /\ ListOff /\ NumOff
  /\ shRows \in UNION {[1..n -> StatRows] : n \in 0..MaxStatRows}
  /\ shOut = ReadIdle

SNext ==
  \E ok \in BOOLEAN, p \in Permutations(1..Len(shRows)) :
    GetVivaStats(ok, p) /\ UNCHANGED <<pipeVars, vapiVars, timeVars, listVars, numVars, extVars>>

SpecStats == SInit /\ [][SNext]_vars

\* ------------------------------------ the student summaries on their own
IsoLater == [TsBlank EXCEPT !.kind = "iso", !.t = MakeDate("jan", 16, 9, 0, 0)]

StudentRows ==
  [ts : {IsoText, IsoLater, TsBlank}, name : {"Asha"}, email : Emails,
   subject : {"Physics"},
   score : {ScoreCell(<<Tok("num", 49)>>),
            ScoreCell(<<Tok("num", passingScore), Tok("slash", 0), Tok("num", 100)>>)},
   ev : {""}]

StInit ==
  /\ HandlersOff /\ ExtOff /\ TimeOff /\ ListOff /\ NumOff
  /\ shRows \in UNION {[1..n -> StudentRows] : n \in 0..MaxStudentRows}
  /\ shOut = ReadIdle

StNext ==
  \/ \E ok \in BOOLEAN, p \in Permutations(1..Len(shRows)) :
       GetStudents(ok, p) /\ UNCHANGED <<pipeVars, vapiVars, timeVars, listVars, numVars, extVars>>
  \/ \E ok \in BOOLEAN, p \in Permutations(1..Len(shRows)),
        q \in UNION {Permutations(1..n) : n \in 0..Len(shRows)} :
       FetchStudentSummaries(ok, p, q)
         /\ UNCHANGED <<pipeVars, vapiVars, timeVars, listVars, numVars, extVars>>

SpecStudents == StInit /\ [][StNext]_vars

\* ------------------- statistics and students beside the relational table
\* the table holds rows or not, the sheet holds rows of its own; the other
\* handlers are at rest
SrcInit ==
  /\ db \in InitTables
  /\ nextId = 2 /\ sheet = <<>> /\ clock = 0 /\ sheetIdSet = TRUE
  /\ wh = WhIdle /\ sync = SyncIdle /\ rd = RdIdle
  /\ vdb = {} /\ vnext = 1 /\ remote = <<>>
  /\ cyc = [c \in 1..2 |-> CycIdle] /\ vruns = 0
  /\ lastRun = [valid |-> FALSE, db |-> {}, calls |-> <<>>]
  /\ TimeOff /\ ListOff /\ NumOff /\ ExtOff
  /\ shRows \in UNION {[1..n -> StudentRows] : n \in 0..MaxStudentRows}
  /\ shOut = ReadIdle

\* GET /stats and GET /students; neither touches the table
SrcNext ==
  \/ \E ok \in BOOLEAN, p \in Permutations(1..Len(shRows)) :
       GetVivaStats(ok, p) /\ UNCHANGED <<pipeVars, vapiVars, timeVars, listVars, numVars, extVars>>
  \/ \E ok \in BOOLEAN, p \in Permutations(1..Len(shRows)) :
       GetStudents(ok, p) /\ UNCHANGED <<pipeVars, vapiVars, timeVars, listVars, numVars, extVars>>

SpecSource == SrcInit /\ [][SrcNext]_vars

\* ------------------------------------------------- the topics on their own
TopicSheets ==
  {<<>>, <<TopicRow("Physics", "Optics", "active")>>,
   <<TopicRow("Physics", "Optics", ""), TopicRow("Physics", "Waves", "active")>>}

TpInit ==
  /\ HandlersOff /\ TimeOff /\ ListOff /\ NumOff /\ ReadOff /\ RestOff
  /\ topicsSheet \in TopicSheets
  /\ subjectsSheet = <<>>
  /\ catReq = [r \in 1..MaxCatReqs |-> CatIdle]

TpNext ==
  \/ \E r \in 1..MaxCatReqs, sub \in TopicSubjects \cup {""}, n \in TopicNames :
       TopicPostStart(r, sub, n) /\ UNCHANGED <<pipeVars, vapiVars, pureBase, restVars>>
  \/ \E r \in 1..MaxCatReqs, ok \in BOOLEAN :
       TopicPostRead(r, ok) /\ UNCHANGED <<pipeVars, vapiVars, pureBase, restVars>>
  \/ \E r \in 1..MaxCatReqs, ok \in BOOLEAN :
       TopicPostAppend(r, ok) /\ UNCHANGED <<pipeVars, vapiVars, pureBase, restVars>>
  \/ \E r \in 1..MaxCatReqs, sub \in TopicSubjects, n \in TopicNames \cup {""} :
       TopicDeleteStart(r, sub, n) /\ UNCHANGED <<pipeVars, vapiVars, pureBase, restVars>>
  \/ \E r \in 1..MaxCatReqs, ok \in BOOLEAN :
       TopicDeleteRead(r, ok) /\ UNCHANGED <<pipeVars, vapiVars, pureBase, restVars>>
  \/ \E r \in 1..MaxCatReqs, ok \in BOOLEAN :
       TopicDeleteRow(r, ok) /\ UNCHANGED <<pipeVars, vapiVars, pureBase, restVars>>
  \/ \E r \in 1..MaxCatReqs, sub \in TopicSubjects, n \in TopicNames,
        m \in TopicNames \cup {""} :
       TopicPutStart(r, sub, n, sub, m) /\ UNCHANGED <<pipeVars, vapiVars, pureBase, restVars>>
  \/ \E r \in 1..MaxCatReqs, ok \in BOOLEAN :
       TopicPutRead(r, ok) /\ UNCHANGED <<pipeVars, vapiVars, pureBase, restVars>>
  \/ \E r \in 1..MaxCatReqs, ok \in BOOLEAN :
       TopicPutUpdate(r, ok) /\ UNCHANGED <<pipeVars, vapiVars, pureBase, restVars>>

SpecTopics == TpInit /\ [][TpNext]_vars

\* ----------------------------------------------- the subjects on their own
SubjectSheets == {<<>>, <<SubjectRow("Physics", "", "active")>>}

SbInit ==
  /\ HandlersOff /\ TimeOff /\ ListOff /\ NumOff /\ ReadOff /\ RestOff
  /\ topicsSheet \in {<<>>, <<TopicRow("Physics", "Optics", "active")>>}
  /\ subjectsSheet \in SubjectSheets
  /\ catReq = [r \in 1..MaxCatReqs |-> CatIdle]

SbNext ==
  \/ \E r \in 1..MaxCatReqs, n \in SubjectNames \cup {""} :
       SubjectPostStart(r, n) /\ UNCHANGED <<pipeVars, vapiVars, pureBase, restVars>>
  \/ \E r \in 1..MaxCatReqs, ok \in BOOLEAN :
       SubjectPostAppend(r, ok) /\ UNCHANGED <<pipeVars, vapiVars, pureBase, restVars>>
  \/ \E r \in 1..MaxCatReqs, n \in SubjectNames \cup {""} :
       SubjectDeleteStart(r, n) /\ UNCHANGED <<pipeVars, vapiVars, pureBase, restVars>>
  \/ \E r \in 1..MaxCatReqs, ok \in BOOLEAN :
       SubjectDeleteRead(r, ok) /\ UNCHANGED <<pipeVars, vapiVars, pureBase, restVars>>
  \/ \E r \in 1..MaxCatReqs, ok \in BOOLEAN :
       SubjectDeleteRow(r, ok) /\ UNCHANGED <<pipeVars, vapiVars, pureBase, restVars>>
  \/ \E r \in 1..MaxCatReqs, n \in SubjectNames, m \in SubjectNames \cup {""} :
       SubjectPutStart(r, n, m) /\ UNCHANGED <<pipeVars, vapiVars, pureBase, restVars>>
  \/ \E r \in 1..MaxCatReqs, ok \in BOOLEAN :
       SubjectPutRead(r, ok) /\ UNCHANGED <<pipeVars, vapiVars, pureBase, restVars>>
  \/ \E r \in 1..MaxCatReqs, ok \in BOOLEAN :
       SubjectPutUpdate(r, ok) /\ UNCHANGED <<pipeVars, vapiVars, pureBase, restVars>>
  \/ \E r \in 1..MaxCatReqs, ok \in BOOLEAN :
       SubjectPutTopicsRead(r, ok) /\ UNCHANGED <<pipeVars, vapiVars, pureBase, restVars>>
  \/ \E r \in 1..MaxCatReqs, ok \in BOOLEAN :
       SubjectPutTopicsWrite(r, ok) /\ UNCHANGED <<pipeVars, vapiVars, pureBase, restVars>>
  \/ \E r \in 1..MaxCatReqs, n \in SubjectNames \cup {""}, ok \in BOOLEAN :
       QuestionSaveStart(r, n, ok) /\ UNCHANGED <<pipeVars, vapiVars, pureBase, restVars>>
  \/ \E r \in 1..MaxCatReqs, ok \in BOOLEAN :
       EnsureSubjectRead(r, ok) /\ UNCHANGED <<pipeVars, vapiVars, pureBase, restVars>>
  \/ \E r \in 1..MaxCatReqs, ok \in BOOLEAN :
       EnsureSubjectAppend(r, ok) /\ UNCHANGED <<pipeVars, vapiVars, pureBase, restVars>>

SpecSubjects == SbInit /\ [][SbNext]_vars

\* --------------- reconciliation beside the read and catalogue operations
FrameRow ==
  [ts |-> IsoText, name |-> "Asha", email |-> "asha@x.com", subject |-> "Physics",
   score |-> ScoreCell(<<Tok("num", 72)>>), ev |-> ""]

\* the table as an earlier cycle may have left it, a sheet of one result, a
\* catalogue of one subject with one topic, one slot for a catalogue request
FrInit ==
  /\ db \in InitTables
  /\ nextId = 2 /\ sheet = <<SheetRowOf("Asha", 0 - 1)>> /\ clock = 0
  /\ sheetIdSet = TRUE
  /\ wh = WhIdle /\ sync = SyncIdle /\ rd = RdIdle
  /\ vdb = {} /\ vnext = 1 /\ remote = <<>>
  /\ cyc = [c \in 1..2 |-> CycIdle] /\ vruns = 0
  /\ lastRun = [valid |-> FALSE, db |-> {}, calls |-> <<>>]
  /\ TimeOff /\ ListOff /\ NumOff /\ RestOff
  /\ shRows = <<FrameRow>>
  /\ shOut = ReadIdle
  /\ topicsSheet = <<TopicRow("Physics", "Optics", "active")>>
  /\ subjectsSheet = <<SubjectRow("Physics", "", "active")>>
  /\ catReq = <<CatIdle>>

FrameOthers == <<vapiVars, timeVars, listVars, numVars, restVars>>

\* a step of a read operation
FrReadStep ==
  \/ \E p \in Permutations(1..Len(shRows)) : GetVivaStats(TRUE, p)
  \/ \E p \in Permutations(1..Len(shRows)) : GetStudents(TRUE, p)
  \/ \E p \in Permutations(1..Len(shRows)) : GetResults(TRUE, p)

\* a step of a subject, topic or question request
FrCatalogStep ==
  \/ TopicPostStart(1, "Physics", "Waves")
  \/ TopicPostRead(1, TRUE)
  \/ TopicPostAppend(1, TRUE)
  \/ TopicDeleteStart(1, "Physics", "Optics")
  \/ TopicDeleteRead(1, TRUE)
  \/ TopicDeleteRow(1, TRUE)
  \/ TopicPutStart(1, "Physics", "Optics", "Physics", "Waves")
  \/ TopicPutRead(1, TRUE)
  \/ TopicPutUpdate(1, TRUE)
  \/ SubjectPostStart(1, "Maths")
  \/ SubjectPostAppend(1, TRUE)
  \/ SubjectDeleteStart(1, "Physics")
  \/ SubjectDeleteRead(1, TRUE)
  \/ SubjectDeleteRow(1, TRUE)
  \/ SubjectPutStart(1, "Physics", "Maths")
  \/ SubjectPutRead(1, TRUE)
  \/ SubjectPutUpdate(1, TRUE)
  \/ SubjectPutTopicsRead(1, TRUE)
  \/ SubjectPutTopicsWrite(1, TRUE)
  \/ QuestionSaveStart(1, "Maths", TRUE)
  \/ EnsureSubjectRead(1, TRUE)
  \/ EnsureSubjectAppend(1, TRUE)

FrNext ==
  \/ SyncStart /\ UNCHANGED <<vapiVars, pureVars>>
  \/ \E outcome \in {"ok", "none", "throw"} :
       SyncGetAccessToken(outcome) /\ UNCHANGED <<vapiVars, pureVars>>
  \/ \E ok \in BOOLEAN : SyncPull(ok) /\ UNCHANGED <<vapiVars, pureVars>>
  \/ \E ok \in BOOLEAN : SyncTruncate(ok) /\ UNCHANGED <<vapiVars, pureVars>>
  \/ \E ok \in BOOLEAN : SyncInsertRow(ok) /\ UNCHANGED <<vapiVars, pureVars>>
  \/ SyncRespond /\ UNCHANGED <<vapiVars, pureVars>>
  \/ \E ok \in BOOLEAN : ReaderQuery(ok) /\ UNCHANGED <<vapiVars, pureVars>>
  \/ \E ok \in BOOLEAN : ReaderFetchSheets(ok) /\ UNCHANGED <<vapiVars, pureVars>>
  \/ \E ok \in BOOLEAN : SyncStatusCount(ok) /\ UNCHANGED <<FrameOthers, catVars>>
  \/ \E ok \in BOOLEAN : SyncStatusLast(ok) /\ UNCHANGED <<FrameOthers, catVars>>
  \/ FrReadStep /\ UNCHANGED <<pipeVars, FrameOthers, catVars>>
  \/ FrCatalogStep /\ UNCHANGED <<pipeVars, FrameOthers, readVars>>

SpecFrame == FrInit /\ [][FrNext]_vars

\* ------------------------------------- the paged listing and its cycle
\* the pages the platform serves: any kinds for the first MaxPages pages
Platforms ==
  {[apiKey |-> TRUE, pages |-> [p \in 1..n |-> PageOf(f[p], p)]] :
     n \in 0..MaxPages, f \in [1..MaxPages -> PageKinds]}

\* the last execution the timer starts; the table is empty or holds the row
\* an earlier execution wrote for the first call
PlInit ==
  /\ db = {} /\ nextId = 2 /\ sheet = <<>> /\ clock = 0 /\ sheetIdSet = TRUE
  /\ wh = WhIdle /\ sync = SyncIdle /\ rd = RdIdle
  /\ vdb \in {{}, {[id |-> 1, callId |-> PagedCall(1, 1).id, content |-> "b"]}}
  /\ vnext = 2 /\ remote = <<>>
  /\ cyc = [c \in 1..2 |-> CycIdle] /\ vruns = MaxVapiCycles - 1
  /\ lastRun = [valid |-> FALSE, db |-> {}, calls |-> <<>>]
  /\ TimeOff /\ ListOff /\ NumOff /\ ReadOff /\ CatOff /\ other = OtherIdle /\ conv = ConvIdle /\ DualOff
  /\ connectorSet = TRUE
  /\ platform \in Platforms
  /\ pull = [c \in 1..2 |-> PullIdle]

PlOthers == <<pipeVars, pureBase, catVars, other, conv, dual>>

PlNext ==
  \/ VapiStart(1) /\ UNCHANGED <<PlOthers, pullVars>>
  \/ \E thrown \in BOOLEAN : FetchPage(1, thrown) /\ UNCHANGED PlOthers
  \/ \E ok \in BOOLEAN : VapiSelect(1, ok) /\ UNCHANGED <<PlOthers, pullVars>>
  \/ \E ok \in BOOLEAN : VapiWrite(1, ok) /\ UNCHANGED <<PlOthers, pullVars>>
  \/ VapiDone(1) /\ UNCHANGED <<PlOthers, pullVars>>

SpecPull == PlInit /\ [][PlNext]_vars

\* every step of the script is eventually taken: the event loop runs it
FairPull == SpecPull /\ WF_vars(PlNext)

\* ---------------------------------------- operations under a configuration
\* what getAccessToken can come to: without the connector hostname or the
\* identity token the request throws or yields no token
TokenOutcomes(none) ==
  IF connectorSet THEN {"ok", none, "throw"} ELSE {none, "throw"}

\* any configuration: connector set or not, GOOGLE_SHEET_ID set or not,
\* VAPI_API_KEY set (the platform then lists two calls) or not
CfInit ==
  /\ db = {} /\ nextId = 2 /\ sheet = <<>> /\ clock = 0
  /\ sheetIdSet \in BOOLEAN
  /\ wh = WhIdle /\ sync = SyncIdle /\ rd = RdIdle
  /\ vdb = {} /\ vnext = 1 /\ remote = <<>>
  /\ cyc = [c \in 1..2 |-> CycIdle] /\ vruns = MaxVapiCycles - 1
  /\ lastRun = [valid |-> FALSE, db |-> {}, calls |-> <<>>]
  /\ TimeOff /\ ListOff /\ NumOff /\ ReadOff /\ CatOff /\ other = OtherIdle /\ conv = ConvIdle /\ DualOff
  /\ connectorSet \in BOOLEAN
  /\ platform \in {[apiKey |-> FALSE, pages |-> <<>>],
                    [apiKey |-> TRUE, pages |-> <<PageOf("short", 1)>>]}
  /\ pull = [c \in 1..2 |-> PullIdle]

CfNext ==
  \/ \E body \in Bodies : WebhookReceive(body) /\ UNCHANGED <<vapiVars, pureVars>>
  \/ \E ok \in BOOLEAN : saveToDatabase(ok) /\ UNCHANGED <<vapiVars, pureVars>>
  \/ \E outcome \in TokenOutcomes("notoken") :
       appendToSheet(outcome) /\ UNCHANGED <<vapiVars, pureVars>>
  \/ WebhookRespond /\ UNCHANGED <<vapiVars, pureVars>>
  \/ SyncStart /\ UNCHANGED <<vapiVars, pureVars>>
  \/ \E outcome \in TokenOutcomes("none") :
       SyncGetAccessToken(outcome) /\ UNCHANGED <<vapiVars, pureVars>>
  \/ \E ok \in BOOLEAN : SyncPull(ok) /\ UNCHANGED <<vapiVars, pureVars>>
  \/ \E ok \in BOOLEAN : SyncTruncate(ok) /\ UNCHANGED <<vapiVars, pureVars>>
  \/ \E ok \in BOOLEAN : SyncInsertRow(ok) /\ UNCHANGED <<vapiVars, pureVars>>
  \/ SyncRespond /\ UNCHANGED <<vapiVars, pureVars>>
  \/ \E ok \in BOOLEAN : ReaderQuery(ok) /\ UNCHANGED <<vapiVars, pureVars>>
  \/ \E ok \in BOOLEAN : ReaderFetchSheets(ok) /\ UNCHANGED <<vapiVars, pureVars>>
  \/ VapiStart(1) /\ UNCHANGED <<PlOthers, pullVars>>
  \/ \E thrown \in BOOLEAN : FetchPage(1, thrown) /\ UNCHANGED PlOthers
  \/ \E ok \in BOOLEAN : VapiSelect(1, ok) /\ UNCHANGED <<PlOthers, pullVars>>
  \/ \E ok \in BOOLEAN : VapiWrite(1, ok) /\ UNCHANGED <<PlOthers, pullVars>>
  \/ VapiDone(1) /\ UNCHANGED <<PlOthers, pullVars>>

SpecConfig == CfInit /\ [][CfNext]_vars

\* --------------------------------------- ingestion and full replacement
\* the webhook and POST /sync-results side by side, nothing else running
CvInit ==
  /\ db \in InitTables /\ nextId = 2 /\ sheet \in InitSheets /\ clock = 0
  /\ sheetIdSet = TRUE
  /\ wh = WhIdle /\ sync = SyncIdle /\ rd = RdIdle
  /\ vdb = {} /\ vnext = 1 /\ remote = <<>>
  /\ cyc = [c \in 1..2 |-> CycIdle] /\ vruns = 0
  /\ lastRun = [valid |-> FALSE, db |-> {}, calls |-> <<>>]
  /\ PureOff

\* ---- the second POST /sync-results request: the same handler, its own locals
OtherFrame ==
  <<sheet, clock, sheetIdSet, wh, rd, sync, vapiVars, pureBase, catVars, pullVars, conv,
    dual>>

\* the request arrives (once) and awaits getAccessToken
OtherStart ==
  /\ other.pc = "idle"
  /\ other' = [other EXCEPT !.pc = "token"]
  /\ UNCHANGED <<db, nextId, OtherFrame>>

\* getAccessToken: no token or a throw ends the request with a 500
OtherGetAccessToken(outcome) ==
  /\ other.pc = "token"
  /\ other' = [other EXCEPT !.pc = IF outcome = "ok" THEN "pull" ELSE "failed"]
  /\ UNCHANGED <<db, nextId, OtherFrame>>

\* spreadsheets.values.get
OtherPull(ok) ==
  /\ other.pc = "pull"
  /\ other' = IF ok THEN [other EXCEPT !.pc = "truncate", !.rows = sheet]
                    ELSE [other EXCEPT !.pc = "failed"]
  /\ UNCHANGED <<db, nextId, OtherFrame>>

\* TRUNCATE TABLE viva_results
OtherTruncate(ok) ==
  /\ other.pc = "truncate"
  /\ IF ok
       THEN /\ db' = {}
            /\ other' = [other EXCEPT !.pc = "insert", !.i = 1]
       ELSE /\ other' = [other EXCEPT !.pc = "failed"]
            /\ UNCHANGED db
  /\ UNCHANGED <<nextId, OtherFrame>>

\* one iteration of the for loop
OtherInsertRow(ok) ==
  /\ other.pc = "insert" /\ other.i <= Len(other.rows)
  /\ IF other.rows[other.i].name = ""
       THEN /\ other' = [other EXCEPT !.i = other.i + 1]
            /\ UNCHANGED <<db, nextId>>
       ELSE IF ok
         THEN /\ db' = db \cup {RowFromSheet(other.rows[other.i], nextId, clock)}
              /\ nextId' = nextId + 1
              /\ other' = [other EXCEPT !.i = other.i + 1]
         ELSE /\ other' = [other EXCEPT !.pc = "failed"]
              /\ UNCHANGED <<db, nextId>>
  /\ UNCHANGED OtherFrame

\* the loop ended: { success: true, synced }
OtherRespond ==
  /\ other.pc = "insert" /\ other.i > Len(other.rows)
  /\ other' = [other EXCEPT !.pc = "done"]
  /\ UNCHANGED <<db, nextId, OtherFrame>>

\* the webhook request stamped t answered with both writes successful
ReportedBoth(t) ==
  /\ wh.pc = "responded" /\ wh.ts = t /\ wh.resp.status = 200
  /\ wh.resp.savedToDatabase /\ wh.resp.savedToSheet

\* POST /sync-results arrives (history: the request whose report of two
\* successful writes is the latest answer of the webhook at that moment)
CycleStarts ==
  /\ SyncStart
  /\ conv' = [after |-> {t \in 1..MaxRequests : ReportedBoth(t)},
              done |-> FALSE, table |-> {}]
  /\ UNCHANGED <<vapiVars, pureBase, catVars, pullVars, other, dual>>

\* the cycle answers 200 (history: the table at that moment)
CycleCompletes ==
  /\ SyncRespond
  /\ conv' = [conv EXCEPT !.done = TRUE, !.table = db]
  /\ UNCHANGED <<vapiVars, pureBase, catVars, pullVars, other, dual>>

CvNext ==
  \/ \E body \in Bodies : WebhookReceive(body) /\ UNCHANGED <<vapiVars, pureVars>>
  \/ \E ok \in BOOLEAN : saveToDatabase(ok) /\ UNCHANGED <<vapiVars, pureVars>>
  \/ \E outcome \in {"ok", "notoken", "throw"} :
       appendToSheet(outcome) /\ UNCHANGED <<vapiVars, pureVars>>
  \/ WebhookRespond /\ UNCHANGED <<vapiVars, pureVars>>
  \/ CycleStarts
  \/ \E outcome \in {"ok", "none", "throw"} :
       SyncGetAccessToken(outcome) /\ UNCHANGED <<vapiVars, pureVars>>
  \/ \E ok \in BOOLEAN : SyncPull(ok) /\ UNCHANGED <<vapiVars, pureVars>>
  \/ \E ok \in BOOLEAN : SyncTruncate(ok) /\ UNCHANGED <<vapiVars, pureVars>>
  \/ \E ok \in BOOLEAN : SyncInsertRow(ok) /\ UNCHANGED <<vapiVars, pureVars>>
  \/ CycleCompletes
  \/ OtherStart
  \/ \E outcome \in {"ok", "none", "throw"} : OtherGetAccessToken(outcome)
  \/ \E ok \in BOOLEAN : OtherPull(ok)
  \/ \E ok \in BOOLEAN : OtherTruncate(ok)
  \/ \E ok \in BOOLEAN : OtherInsertRow(ok)
  \/ OtherRespond

SpecConverge == CvInit /\ [][CvNext]_vars

\* ------------------------------------------- one payload through both legs
ScoreInputs == {x \in NumInputs : Len(x.text) <= MaxScoreTokens}

\* "5 questions"
FiveQuestions ==
  [kind |-> "text", n |-> 0, text |-> <<Tok("num", 5), Tok("sp", 0), Tok("word", 0)>>]

\* the payloads with a student name
DualPayloads ==
  [studentName : {"Asha"},
   studentEmail : {Absent, "asha@x.com"},
   subject : {Absent, "", "Physics"},
   topics : {Absent, "Optics"},
   questionsAnswered : {NumBlank, FiveQuestions},
   score : ScoreInputs,
   overallFeedback : {Absent, "good"},
   transcript : {Absent},
   recordingUrl : {Absent, "", "http"},
   evaluation : PayloadEvals]

DuInit ==
  /\ HandlersOff /\ TimeOff /\ ListOff /\ NumOff /\ ReadOff
  /\ CatOff /\ PullOff /\ other = OtherIdle /\ conv = ConvIdle
  /\ dual \in [in : DualPayloads, direct : {NoRow}, cells : {NoRow}, derived : {NoRow}]

DuOthers == <<pipeVars, vapiVars, pureBase, catVars, pullVars, other, conv>>

DuNext ==
  \/ DualSave /\ UNCHANGED DuOthers
  \/ DualAppend /\ UNCHANGED DuOthers
  \/ DualDerive /\ UNCHANGED DuOthers

SpecDual == DuInit /\ [][DuNext]_vars

\* =================================================================== claims
WellFormed == wh.body.kind = "object" /\ wh.body.name # ""

\* the rows of the request in flight, in each store
WhDbRows == {r \in db : r.via = "webhook" /\ r.ts = wh.ts}
WhSheetRows == {k \in 1..Len(sheet) : sheet[k] = SheetRowOf(wh.body.name, wh.ts)}

\* C1 (as claimed): a request whose body has no truthy studentName (a JSON
\* null, or an object without the field) is answered 400 and neither write
\* was started.
C1_MissingNameIs400 ==
  (wh.pc = "responded" /\ wh.body.kind \in {"null", "object"} /\ ~WellFormed)
    => (wh.resp.status = 400 /\ wh.dbLeg = "pending" /\ wh.sheetLeg = "pending")

\* C1, the part the code keeps: a request that is not well-formed is answered
\* at once with an error and changes neither store.
C1_RejectedWritesNothing ==
  [][(wh'.pc = "responded" /\ wh' # wh /\ ~(wh'.body.kind = "object" /\ wh'.body.name # ""))
       => (db' = db /\ sheet' = sheet /\ wh'.resp.status \in {400, 500}
           /\ wh'.dbLeg = "pending" /\ wh'.sheetLeg = "pending")]_vars

\* C2: a well-formed request is answered 200 with success true, and each flag
\* is true exactly when its write succeeded: savedToSheet iff the request's row
\* is in the sheet, savedToDatabase iff the INSERT went through (and never a
\* row of the request in the table when it is false).
C2_FlagsMatchOutcomes ==
  (wh.pc = "responded" /\ WellFormed)
    => /\ wh.resp.status = 200 /\ wh.resp.success
       /\ wh.resp.savedToDatabase = (wh.dbLeg = "ok")
       /\ wh.resp.savedToSheet = (wh.sheetLeg = "ok")
       /\ wh.resp.savedToSheet = (WhSheetRows # {})
       /\ ~wh.resp.savedToDatabase => WhDbRows = {}

C2_Witness ==
  /\ wh.pc = "responded" /\ WellFormed
  /\ wh.resp.status = 200 /\ wh.resp.savedToDatabase /\ ~wh.resp.savedToSheet
  /\ WhDbRows # {} /\ WhSheetRows = {}

\* C3: the two writes are independent. While the request runs, a pending leg
\* can always be issued whatever the other leg did; the step of one leg never
\* touches the other store; a leg that succeeds adds exactly one row for the
\* payload and a leg that fails adds none; the response changes neither store.
C3_LegsIndependent ==
  /\ [](wh.pc = "running" => /\ wh.dbLeg = "pending" => ENABLED saveToDatabase(TRUE)
                             /\ wh.sheetLeg = "pending" => ENABLED appendToSheet("ok"))
  /\ [][(wh.pc = "running" /\ wh' # wh) =>
          /\ wh'.dbLeg # wh.dbLeg =>
               /\ sheet' = sheet
               /\ wh'.dbLeg = "ok" =>
                    \E r \in db' \ db : /\ db' = db \cup {r}
                                       /\ r.ts = wh.ts /\ r.name = wh.body.name
               /\ wh'.dbLeg = "fail" => db' = db
          /\ wh'.sheetLeg # wh.sheetLeg =>
               /\ db' = db
               /\ wh'.sheetLeg = "ok" =>
                    sheet' = Append(sheet, SheetRowOf(wh.body.name, wh.ts))
               /\ wh'.sheetLeg = "fail" => sheet' = sheet
          /\ wh'.pc = "responded" =>
               /\ db' = db /\ sheet' = sheet
               /\ wh.dbLeg # "pending" /\ wh.sheetLeg # "pending"]_vars

\* the sheet append failed first, the insert was still issued and its row is there
C3_Witness ==
  /\ wh.pc = "responded" /\ wh.first = "sheet"
  /\ wh.sheetLeg = "fail" /\ wh.dbLeg = "ok"
  /\ Cardinality(WhDbRows) = 1 /\ WhSheetRows = {}

\* C4 (as claimed): whenever the SELECT returned rows the response is built
\* from them alone with source "database", and whenever it returned no row the
\* response has source "google_sheets" and counts the sheet's data rows.
C4_SourcePolicyAsClaimed ==
  (rd.pc = "responded" /\ rd.dbOk)
    => IF rd.rows # {}
         THEN /\ rd.resp.status = 200 /\ rd.resp.source = "database"
              /\ rd.resp.data = {DbResult(r) : r \in rd.rows} /\ ~rd.sheetRead
         ELSE /\ rd.resp.status = 200 /\ rd.resp.source = "google_sheets"

\* C4 (amended): the table is queried first. If it returns rows, the response
\* is 200 with source "database", built from exactly those rows, and the sheet
\* is not read. If it returns none, the sheet is read; when that read succeeds
\* the response is 200 with source "google_sheets" and count equal to the
\* number of data rows of the sheet, and when it fails the response is a 500.
C4_SourcePolicy ==
  [][(rd' # rd) =>
       /\ (rd.pc # "sheets" /\ rd'.dbOk /\ db # {}) =>
            /\ rd'.pc = "responded" /\ ~rd'.sheetRead
            /\ rd'.resp.status = 200 /\ rd'.resp.source = "database"
            /\ rd'.resp.count = Cardinality(db)
            /\ rd'.resp.data = {DbResult(r) : r \in db}
       /\ (rd.pc # "sheets" /\ rd'.dbOk /\ db = {}) => rd'.pc = "sheets"
       /\ rd.pc = "sheets" =>
            /\ rd'.pc = "responded"
            /\ rd'.resp.status \in {200, 500}
            /\ rd'.resp.status = 200 =>
                 /\ rd'.sheetRead /\ rd'.resp.source = "google_sheets"
                 /\ rd'.resp.count = Len(sheet)
                 /\ Cardinality(rd'.resp.data) = Len(sheet)]_vars

\* the table is empty, the sheet holds two data rows: google_sheets, count 2
C4_Witness ==
  /\ rd.pc = "responded" /\ rd.resp.status = 200
  /\ rd.resp.source = "google_sheets" /\ rd.sheetRead
  /\ Len(sheet) = 2 /\ rd.resp.count = 2

\* C5 (as claimed): when the SELECT fails and the sheet can be read, the read
\* path answers 200 from the sheet.
C5_FallbackWhenDbUnreachable ==
  (rd.pc = "responded" /\ ~rd.dbOk /\ sheetIdSet)
    => (rd.resp.status = 200 /\ rd.resp.source = "google_sheets")

\* ---- full-replace cycle
\* indexes of the pulled rows that carry a student name
Named(rows) == {k \in 1..Len(rows) : rows[k].name # ""}

Content(rows) == {[ts |-> r.ts, name |-> r.name] : r \in rows}

\* what the table should hold for the pulled rows
NewContent == {[ts |-> ParseTimestamp(sync.rows[k].ts, clock), name |-> sync.rows[k].name] :
                 k \in Named(sync.rows)}

C7_FetchFailureMutatesNothing ==
  /\ [][(sync.pc \in {"token", "pull"} /\ sync' # sync) =>
          /\ db' = db /\ nextId' = nextId
          /\ sync'.pc \in {"pull", "truncate", "failed"}
          /\ sync'.pc = "failed" => sync'.resp.status = 500]_vars
  /\ []((sync.pc \in {"token", "pull"} \/ (sync.pc = "failed" /\ sync.i = 0))
          => /\ sync.pre \subseteq db
             /\ \A r \in db \ sync.pre : r.via = "webhook")

C7_Witness ==
  /\ sync.pc = "failed" /\ sync.rows = <<>> /\ sync.i = 0
  /\ sync.resp.status = 500 /\ sync.pre # {} /\ db = sync.pre

\* C8 (as claimed): from the truncate on, during the cycle and after it ends,
\* a reader of the table finds the complete old content or the complete new
\* content whenever the table held rows before and the sheet has rows.
C8_AtomicReplace ==
  (sync.pc \in {"insert", "done", "failed"} /\ sync.i >= 1
     /\ sync.pre # {} /\ Named(sync.rows) # {})
    => \/ Content(sync.pre) \subseteq Content(db)
       \/ NewContent \subseteq Content(db)

C10_UpsertIdempotent ==
  \A c \in 1..2 :
    (cyc[c].base /\ cyc[c].pc = "loop" /\ cyc[c].i > Len(cyc[c].calls))
      => vdb = lastRun.db

\* a second run over two ended calls, whose last statement was an UPDATE
C10_Witness ==
  \E c \in 1..2 :
    /\ cyc[c].base /\ cyc[c].pc = "loop" /\ cyc[c].i > Len(cyc[c].calls)
    /\ Len(cyc[c].calls) = 2 /\ cyc[c].found
    /\ \A k \in 1..2 : cyc[c].calls[k].status = "ended"
    /\ cyc[c].calls[1].id # cyc[c].calls[2].id

\* the call identifiers of the list an execution works on
PullIds(c) == {cyc[c].calls[k].id : k \in 1..Len(cyc[c].calls)}

\* C11: an upsert cycle never deletes. Every step of an execution keeps every
\* row of the table (same id, same call identifier), rows without a call
\* identifier and rows of calls absent from the pull included, and leaves the
\* rows whose call identifier is not in its pull exactly as they were.
C11_UpsertNeverDeletes ==
  [][\A c \in 1..2 :
       (cyc'[c] # cyc[c]) =>
         \A r \in vdb :
           /\ \E q \in vdb' : q.id = r.id /\ q.callId = r.callId
           /\ r.callId \notin PullIds(c) => r \in vdb']_vars

\* an execution ran to its end on a pull that names call c2 only, it has
\* written a row for c2, and the row without identifier and the row of the
\* absent call c1 are still there, unchanged
C11_Witness ==
  \E c \in 1..2 :
    /\ cyc[c].pc = "loop" /\ cyc[c].i > Len(cyc[c].calls)
    /\ Len(cyc[c].calls) = 2 /\ PullIds(c) = {"c2"}
    /\ \A k \in 1..2 : cyc[c].calls[k].status = "ended"
    /\ [id |-> 1, callId |-> "NULL", content |-> "w"] \in vdb
    /\ [id |-> 2, callId |-> "c1", content |-> "b"] \in vdb
    /\ \E r \in vdb : r.callId = "c2"

\* C12: whatever the executions do, overlapping ones included, the table
\* holds at most one row per call identifier; the write for a call whose
\* identifier is present adds no row and touches only rows of that identifier,
\* and the write for one that is absent adds exactly one row of that
\* identifier (or none, when the statement throws).
C12_OneRowPerCallId ==
  /\ [](\A r, q \in vdb : (r.callId = q.callId /\ r.callId # "NULL") => r = q)
  /\ [][\A c \in 1..2 :
         (cyc[c].pc = "write" /\ cyc'[c] # cyc[c]) =>
           LET id == cyc[c].calls[cyc[c].i].id IN
           IF \E r \in vdb : r.callId = id
             THEN /\ {r.id : r \in vdb'} = {r.id : r \in vdb}
                  /\ \A r \in vdb : r.callId # id => r \in vdb'
             ELSE \/ vdb' = vdb
                  \/ \E r \in vdb' \ vdb : vdb' = vdb \cup {r} /\ r.callId = id]_vars

\* two executions overlap: both found no row for the same call, one has
\* inserted its row and the other is about to issue its INSERT
C12_Witness ==
  \E c, d \in 1..2 :
    /\ c # d /\ cyc[c].pc = "write" /\ ~cyc[c].found
    /\ cyc[d].pc = "loop" /\ cyc[d].i > 1
    /\ cyc[d].calls[cyc[d].i - 1].id = cyc[c].calls[cyc[c].i].id
    /\ cyc[d].calls[cyc[d].i - 1].status = "ended"
    /\ Cardinality({r \in vdb : r.callId = cyc[c].calls[cyc[c].i].id}) = 1
    /\ \A r \in vdb : r.callId = cyc[c].calls[cyc[c].i].id => r.id >= 3

\* ---- timestamp normalizer
\* C14 (as claimed): every call of a normalizer, on any text, returns a
\* defined instant: the route's function and the sort helper alike never
\* return an Invalid Date / NaN.
C14_NormalizerTotal ==
  \A k \in 1..Len(tsCalls) : tsCalls[k].route.valid /\ tsCalls[k].sort.valid

\* the texts one of the four parsing steps of the route's function reads
Parseable(ts) == ts.kind \in {"iso", "formatted", "slash", "generic"}

\* C15 (as claimed): two calls with the same text return the same instant,
\* whatever the text and whenever they are made.
C15_DeterministicAsClaimed ==
  \A j, k \in 1..Len(tsCalls) : tsCalls[j].route = tsCalls[k].route

\* C15 (amended): two calls with the same text, made at any times, return
\* the same instant whenever one of the parsing steps reads the text; for
\* empty text and text no step reads, each call returns the instant at which
\* it is made.
C15_Deterministic ==
  \A j, k \in 1..Len(tsCalls) :
    IF Parseable(tsText)
      THEN tsCalls[j].route = tsCalls[k].route
      ELSE tsCalls[k].route = At(tsCalls[k].at)

\* two calls a second apart on text that only the generic parse reads
C15_Witness ==
  /\ tsText.kind = "generic" /\ Len(tsCalls) = 2
  /\ tsCalls[1].at < tsCalls[2].at
  /\ tsCalls[1].route = tsCalls[2].route /\ tsCalls[1].route = At(tsText.t)

\* the 24-hour value the claim prescribes for hour h and marker ap
ClaimedHour(h, ap) ==
  CASE ap = "am" /\ h = 12 -> 0
    [] ap = "pm" /\ h = 12 -> 12
    [] ap = "pm" /\ h < 12 -> h + 12
    [] OTHER -> h

\* C16: for 'D Mon YYYY[,] H:MM[:SS] [am|pm]' text with H in 1..12 the
\* instant the route's function returns has the 24-hour value 0 for 12 am,
\* 12 for 12 pm, H+12 for H pm below 12, and H otherwise, always in 0..23;
\* so does the sort helper's on the texts its own pattern matches.
C16_HourConversion ==
  \A k \in 1..Len(tsCalls) :
    (tsText.kind = "formatted" /\ tsText.hour \in 1..12) =>
      LET h24 == ClaimedHour(tsText.hour, tsText.ampm) IN
      /\ h24 \in 0..23
      /\ tsCalls[k].route =
           At(MakeDate(tsText.mon, tsText.day, h24, tsText.minute, tsText.second))
      /\ MatchesSortPattern(tsText) =>
           tsCalls[k].sort = At(MakeDate(tsText.mon, tsText.day, h24, tsText.minute, 0))

\* '15 Jan 2026, 12:41 pm' has been normalized by both functions: 12:41
C16_Witness ==
  /\ Len(tsCalls) >= 1 /\ MatchesSortPattern(tsText)
  /\ tsText.hour = 12 /\ tsText.ampm = "pm" /\ tsText.day = 15 /\ tsText.minute = 41
  /\ tsCalls[1].route = At(MakeDate(tsText.mon, 15, 12, 41, 0))
  /\ tsCalls[1].sort = tsCalls[1].route

\* ---- order of a listing
\* the instant the Timestamp Normalizer gives row k of the listing
Normalized(k) == parseTimestamp(lsRows[k], TimeStart).t

DistinctInstants ==
  \A i, j \in 1..Len(lsRows) : i # j => Normalized(i) # Normalized(j)

\* C13 (as claimed): whenever the normalized instants of the rows are pairwise
\* distinct, a listing returns the rows in strictly descending order of
\* normalized instant, on the relational path and on the spreadsheet paths.
C13_DescendingOrder ==
  (lsOut.path # "none" /\ DistinctInstants)
    => \A i, j \in 1..Len(lsRows) :
         i < j => Normalized(lsOut.order[i]) > Normalized(lsOut.order[j])

\* C13, the part the code keeps: the relational path lists in strictly
\* descending order, and so does the fallback path when new Date reads every
\* timestamp text, mixed formats included.
C13_DescendingWhenReadable ==
  (/\ lsOut.path \in {"database", "google_sheets"} /\ DistinctInstants
   /\ lsOut.path = "google_sheets" => \A k \in 1..Len(lsRows) : DateParse(lsRows[k]).valid)
    => \A i, j \in 1..Len(lsRows) :
         i < j => Normalized(lsOut.order[i]) > Normalized(lsOut.order[j])

\* ---- numeric extraction
\* the text has a digit run, and none of more than 308 digits
HasDigits(in) ==
  /\ in.kind = "text" /\ DigitRuns(in.text) # {}
  /\ \A i \in DigitRuns(in.text) : in.text[i].t = "num"

\* the value of the first digit run
FirstRun(in) == in.text[Least(DigitRuns(in.text))].v

\* C17 (as claimed): on every path (webhook insert, full-replace cycle, the
\* spreadsheet read paths) the number extracted from a text is the value of
\* its first digit run, wherever in the text the run is, and 0 when the text
\* has no digit.
C17_FirstDigitRun ==
  \A path \in {"webhook", "sync", "fetch", "api"} :
    (numOut[path] # NoNum /\ numIn.kind = "text") =>
      IF HasDigits(numIn) THEN numOut[path] = IntNum(FirstRun(numIn))
      ELSE DigitRuns(numIn.text) = {} => numOut[path] = IntNum(0)

\* C17, the part the code keeps: the full-replace cycle and getVivaResults
\* return the first digit run, or 0 when the text has no digit.
C17_FirstDigitRunSyncAndApi ==
  \A path \in {"sync", "api"} :
    (numOut[path] # NoNum /\ numIn.kind = "text") =>
      IF HasDigits(numIn) THEN numOut[path] = IntNum(FirstRun(numIn))
      ELSE DigitRuns(numIn.text) = {} => numOut[path] = IntNum(0)

\* C18 (as claimed): whatever a payload's score or questionsAnswered is, the
\* value the webhook binds to the row is a defined integer and the INSERT is
\* not rejected because of it.
C18_AlwaysAnInteger ==
  numOut.webhook # NoNum => (numOut.webhook.k = "int" /\ numOut.saved)

\* ---- evaluation column
\* what the claim expects of the evaluation of a row
ClaimedEvaluation(ev) == IF ev = "valid" THEN "object" ELSE "absent"

\* C19: text in the evaluation column that is not valid JSON is treated as
\* absent and nothing stops. When the sheet could be read, getVivaResults
\* succeeds and returns one result per row, each with the row's other fields
\* and with the evaluation absent unless the text is valid JSON; the sync
\* loop inserts every named row it has passed, in order, with the row's other
\* fields and a NULL evaluation unless the text is valid JSON.
C19_MalformedEvaluationDropped ==
  /\ (shOut.read.done /\ shOut.read.ok) =>
       /\ shOut.read.success
       /\ Len(shOut.read.data) = Len(shRows)
       /\ \A k \in 1..Len(shRows) :
            \E j \in 1..Len(shOut.read.data) :
              shOut.read.data[j] =
                [id |-> k, timestamp |-> shRows[k].ts,
                 studentName |-> IF shRows[k].name = "" THEN "Unknown" ELSE shRows[k].name,
                 studentEmail |-> shRows[k].email,
                 subject |-> shRows[k].subject,
                 score |-> IntNum(72),
                 evaluation |-> ClaimedEvaluation(shRows[k].ev)]
  /\ {shOut.inserted[j].row : j \in 1..Len(shOut.inserted)}
       = {k \in 1..Len(shRows) : k < shOut.i /\ shRows[k].name # ""}
  /\ \A j \in 1..Len(shOut.inserted) :
       LET k == shOut.inserted[j].row IN
       /\ \A h \in 1..Len(shOut.inserted) : h < j => shOut.inserted[h].row < k
       /\ shOut.inserted[j].values =
            [timestamp |-> shRows[k].ts, studentName |-> shRows[k].name,
             subject |-> shRows[k].subject, score |-> IntNum(72),
             evaluation |-> IF shRows[k].ev = "valid" THEN "json" ELSE "null"]

\* a row with '{not json' comes before a row with valid JSON: both are
\* returned by the read and both are inserted by the sync loop
C19_Witness ==
  /\ Len(shRows) = 2 /\ shRows[1].ev = "invalid" /\ shRows[2].ev = "valid"
  /\ shRows[1].name # "" /\ shRows[2].name # ""
  /\ shOut.read.done /\ shOut.read.success /\ Len(shOut.read.data) = 2
  /\ \E j \in 1..2 : shOut.read.data[j].id = 1 /\ shOut.read.data[j].evaluation = "absent"
  /\ shOut.i = 3 /\ Len(shOut.inserted) = 2
  /\ shOut.inserted[1].values.evaluation = "null"
  /\ shOut.inserted[2].values.evaluation = "json"

\* ---- statistics
\* the score and the subject of row k as the resolved list carries them
ScoreOfRow(k) == parseScoreApi(shRows[k].score).v
SubjectOfRow(k) == IF shRows[k].subject = "" THEN "Unknown Subject" ELSE shRows[k].subject

RowsOf(x) == {k \in 1..Len(shRows) : SubjectOfRow(k) = x}

RECURSIVE SumScores(_)
SumScores(K) ==
  IF K = {} THEN 0
  ELSE LET k == CHOOSE i \in K : TRUE IN ScoreOfRow(k) + SumScores(K \ {k})

\* C20: for every list getVivaStats resolved, totalVivas is its length,
\* totalPassed the number of results with score >= 50, totalFailed the
\* difference; there is one entry per subject of the list, its count is the
\* number of that subject's results (so the counts sum to totalVivas), and
\* its passRate and avgScore are those of that subject's results alone; for
\* an empty list every value is 0 and there is no entry.
C20_StatsOfList ==
  (shOut.stats.done /\ shOut.stats.ok) =>
    LET st == shOut.stats.out
        all == 1..Len(shRows)
    IN /\ st.success
       /\ st.totalVivas = Len(shRows)
       /\ st.totalPassed = Cardinality({k \in all : ScoreOfRow(k) >= 50})
       /\ st.totalFailed = st.totalVivas - st.totalPassed
       /\ st.avgScore = IF all = {} THEN 0 ELSE Round(SumScores(all), Cardinality(all))
       /\ DOMAIN st.subjectStats = {SubjectOfRow(k) : k \in all}
       /\ \A x \in DOMAIN st.subjectStats :
            LET K == RowsOf(x) IN
            /\ st.subjectStats[x].count = Cardinality(K)
            /\ st.subjectStats[x].passRate =
                 Round(100 * Cardinality({k \in K : ScoreOfRow(k) >= 50}), Cardinality(K))
            /\ st.subjectStats[x].avgScore = Round(SumScores(K), Cardinality(K))
       /\ all = {} => /\ st.totalVivas = 0 /\ st.totalPassed = 0 /\ st.totalFailed = 0
                      /\ st.avgScore = 0

\* three results: Physics with scores 49 and 50 (average 50, pass rate 50),
\* Maths with an empty score cell (score 0)
C20_Witness ==
  /\ shOut.stats.done /\ shOut.stats.ok /\ Len(shRows) = 3
  /\ shOut.stats.out.totalVivas = 3 /\ shOut.stats.out.totalPassed = 1
  /\ shOut.stats.out.totalFailed = 2
  /\ DOMAIN shOut.stats.out.subjectStats = {"Physics", "Maths"}
  /\ shOut.stats.out.subjectStats["Physics"] = [count |-> 2, avgScore |-> 50, passRate |-> 50]
  /\ shOut.stats.out.subjectStats["Maths"] = [count |-> 1, avgScore |-> 0, passRate |-> 0]

\* ---- C21
\* the data rows behind summary i of a student listing: those whose e-mail
\* is the summary's up to letter case
RowsOfStudent(e) ==
  {k \in 1..Len(shRows) : toLowerCase(shRows[k].email) = toLowerCase(e)}

StudentsListed == shOut.students.done /\ shOut.students.success

\* one summary per distinct lower-cased e-mail
C21_OnePerLowerCasedEmail ==
  StudentsListed =>
    LET data == shOut.students.data IN
    /\ \A i, j \in 1..Len(data) :
         toLowerCase(data[i].email) = toLowerCase(data[j].email) => i = j
    /\ {toLowerCase(data[i].email) : i \in 1..Len(data)}
         = {toLowerCase(shRows[k].email) : k \in 1..Len(shRows)}

\* the counts of the summaries add up to the number of results
C21_CountsAddUp ==
  StudentsListed =>
    LET data == shOut.students.data IN
    SumSeq([i \in 1..Len(data) |-> data[i].vivasCompleted]) = Len(shRows)

\* the last viva of a summary is not older than any dated result of the
\* student
C21_LastVivaMostRecent ==
  StudentsListed =>
    LET data == shOut.students.data IN
    \A i \in 1..Len(data) :
      \A k \in RowsOfStudent(data[i].email) :
        DateParse(shRows[k].ts).valid =>
          /\ DateParse(data[i].lastViva).valid
          /\ DateParse(data[i].lastViva).t >= DateParse(shRows[k].ts).t

\* C21: listStudents groups the results by e-mail without regard to letter
\* case: results whose e-mails differ only in case share a summary, there is
\* one summary per distinct lower-cased e-mail, the vivasCompleted counts
\* sum to the number of results, and the last viva of a summary is the most
\* recent of its results.
C21_GroupedByEmailIgnoringCase ==
  /\ C21_OnePerLowerCasedEmail
  /\ C21_CountsAddUp
  /\ C21_LastVivaMostRecent

\* ---- C22
\* the scores fetchVivaResults reads from the rows of a student
ScoresOfStudent(e) ==
  [k \in RowsOfStudent(e) |->
     (IF CellText(shRows[k].score) = <<>> THEN IntNum(0) ELSE parseScore(shRows[k].score)).v]

RECURSIVE SumOver(_, _)
SumOver(f, S) ==
  IF S = {} THEN 0 ELSE LET k == CHOOSE k \in S : TRUE IN f[k] + SumOver(f, S \ {k})

\* C22: the status of a student summary is pending when the student has no
\* vivas, at_risk when the average of the student's scores is below 50
\* (an average in [49.5, 50) included), and active otherwise.
C22_StatusByAverage ==
  (shOut.summaries.done /\ shOut.summaries.success) =>
    LET data == shOut.summaries.data IN
    \A i \in 1..Len(data) :
      LET S == RowsOfStudent(data[i].email)
          total == SumOver(ScoresOfStudent(data[i].email), S)
      IN data[i].status =
           IF S = {} THEN "pending"
           ELSE IF total < 50 * Cardinality(S) THEN "at_risk"
           ELSE "active"

\* the status follows the rounded average the summary carries
C22_StatusByRoundedAverage ==
  (shOut.summaries.done /\ shOut.summaries.success) =>
    LET data == shOut.summaries.data IN
    \A i \in 1..Len(data) :
      /\ data[i].vivasCompleted = Cardinality(RowsOfStudent(data[i].email))
      /\ data[i].vivasCompleted > 0
      /\ data[i].averageScore =
           Round(SumOver(ScoresOfStudent(data[i].email), RowsOfStudent(data[i].email)),
                 data[i].vivasCompleted)
      /\ data[i].status = IF data[i].averageScore < 50 THEN "at_risk" ELSE "active"

\* ---- C23
\* C23: getStats and listStudents follow the source policy of listResults:
\* while the relational result table holds a row they answer from the
\* relational rows, and the spreadsheet is read only when the table is empty
\* or unreachable.
C23_StatsAndStudentsPreferTable ==
  db # {} =>
    /\ shOut.stats.done =>
         /\ shOut.stats.out.success
         /\ shOut.stats.out.totalVivas = Cardinality(db)
    /\ shOut.students.done =>
         /\ shOut.students.success
         /\ SumSeq([i \in 1..Len(shOut.students.data) |->
                      shOut.students.data[i].vivasCompleted]) = Cardinality(db)

\* what the two operations do answer from: the rows of the sheet, whatever
\* the table holds
C23_StatsAndStudentsOfSheet ==
  /\ (shOut.stats.done /\ shOut.stats.out.success) =>
        shOut.stats.out.totalVivas = Len(shRows)
  /\ (shOut.students.done /\ shOut.students.success) =>
        SumSeq([i \in 1..Len(shOut.students.data) |->
                  shOut.students.data[i].vivasCompleted]) = Len(shRows)
  /\ shOut.stats.done => (shOut.stats.out.success <=> shOut.stats.ok)

\* ---- C25
\* two rows of the Topics sheet holding one (subject, name) pair up to
\* letter case
DuplicateTopics ==
  \E i, j \in 1..Len(topicsSheet) :
    i < j /\ TopicMatches(topicsSheet[i], topicsSheet[j].subject, topicsSheet[j].name)

\* C25: whatever topic create, update and delete requests have run,
\* overlapping ones included, the Topics sheet holds no two rows with the
\* same (subject, name) pair compared without regard to letter case, and a
\* request rejected with 400 has written nothing.
C25_TopicsUnique ==
  /\ ~DuplicateTopics
  /\ \A r \in DOMAIN catReq : catReq[r].resp.status = 400 => ~catReq[r].wrote

\* ---- C26
\* C26: whatever subject create, rename and delete requests and question
\* saves have run, no two rows of the Subjects sheet have the same name.
C26_SubjectsUnique ==
  \A i, j \in 1..Len(subjectsSheet) :
    (i < j /\ subjectsSheet[i].name # "") => subjectsSheet[i].name # subjectsSheet[j].name

\* ---- C24
\* C24: only the result ingestion endpoint and the reconciliation jobs
\* change the relational result table: a step of a read operation (GET
\* /viva-results, /results, /stats, /students, /sync-results) or of a
\* subject, topic or question request leaves the set of rows as it is.
C24_OnlyWritersChangeTable ==
  [][db' # db => (wh' # wh \/ sync' # sync)]_vars

\* every read operation has answered and a catalogue request has written,
\* beside a table that holds rows
C24_Witness ==
  /\ db # {}
  /\ rd.pc = "responded" /\ rd.resp.status = 200
  /\ shOut.status.pc = "responded" /\ shOut.status.resp.status = 200
  /\ shOut.stats.done /\ shOut.students.done /\ shOut.results.done
  /\ catReq[1].wrote
  /\ sync.pc = "done"


\* ---------------------------------------------------------------- C30
\* page n ends the listing: a non-OK response, or fewer calls than the limit
\* (an empty page included)
EndsListing(n) ==
  \/ ~PageResponse(n).ok
  \/ Len(PageResponse(n).calls) < PageLimit

\* the first page that ends the listing
StopPage ==
  CHOOSE n \in 1..(Len(platform.pages) + 1) :
    EndsListing(n) /\ \A m \in 1..(n - 1) : ~EndsListing(m)

RECURSIVE CallsUpTo(_)
\* the calls of the OK pages 1..n, in page order
CallsUpTo(n) ==
  IF n = 0 THEN <<>>
  ELSE CallsUpTo(n - 1) \o (IF PageResponse(n).ok THEN PageResponse(n).calls ELSE <<>>)

\* the list returned is the calls of the OK pages up to the one that ends
\* the listing
C30_ReturnsPagesRead ==
  pull[1].out = "returned" => pull[1].allCalls = CallsUpTo(StopPage)

\* every row a step inserts or updates belongs to a call listed as ended
C30_OnlyEndedWritten ==
  \A r \in vdb' \ vdb :
    \E p \in 1..Len(platform.pages) :
      \E k \in 1..Len(platform.pages[p].calls) :
        /\ platform.pages[p].calls[k].id = r.callId
        /\ platform.pages[p].calls[k].status = "ended"

\* the step in which fetchVapiCalls returns a list that is not empty hands
\* that list to the loop
C30_ProceedsWithList ==
  (cyc[1].pc = "fetch" /\ pull'[1].out = "returned" /\ cyc'[1].pc # "fetch"
     /\ CallsUpTo(StopPage) # <<>>)
    => (cyc'[1].pc = "loop" /\ cyc'[1].calls = CallsUpTo(StopPage))

\* C30: fetchVapiCalls terminates on every remote whose page sequence reaches
\* a page below the limit, an empty page or a non-OK response; it returns the
\* calls of the pages read up to there in page order; a non-OK response on a
\* later page still hands the partial list to the upsert loop; and only calls
\* whose status is "ended" are written to the table.
C30_FetchTerminatesAndUpserts ==
  /\ (cyc[1].pc = "fetch") ~> (cyc[1].pc # "fetch")
  /\ []C30_ReturnsPagesRead
  /\ [][C30_ProceedsWithList /\ C30_OnlyEndedWritten]_vars

\* a full page, then a non-OK response: the loop has written calls of the
\* first page
C30_Witness ==
  /\ Len(platform.pages) >= 2
  /\ Len(platform.pages[1].calls) = PageLimit
  /\ ~platform.pages[2].ok
  /\ pull[1].out = "returned"
  /\ Len(pull[1].allCalls) = PageLimit
  /\ cyc[1].pc = "loop" /\ cyc[1].i > 2
  /\ vdb # {}


\* ---------------------------------------------------------------- C27
\* the webhook ran its spreadsheet leg without the connector configuration
\* and answered with a 500-class status
C27_WebhookSurfaces ==
  (~connectorSet /\ wh.pc = "responded" /\ wh.sheetLeg # "pending")
    => wh.resp.status >= 500

\* POST /sync-results without the connector configuration answers 500
C27_SyncRouteSurfaces ==
  (~connectorSet /\ sync.resp # NoResp) => sync.resp.status >= 500

\* GET /viva-results without GOOGLE_SHEET_ID succeeds only from the table
C27_ReadSurfaces ==
  (~sheetIdSet /\ rd.pc = "responded" /\ rd.resp.status = 200)
    => rd.resp.source = "database"

\* fetchVapiCalls without VAPI_API_KEY does not return normally
C27_ListingSurfaces ==
  (~platform.apiKey /\ pull[1].out # "none") => pull[1].out = "threw"

\* C27: an operation of the ingestion, reconciliation or read path that runs
\* with a required configuration value absent ends in an error surfaced to
\* its caller, never as a success with defaulted or empty data.
C27_ConfigErrorsSurface ==
  /\ C27_WebhookSurfaces
  /\ C27_SyncRouteSurfaces
  /\ C27_ReadSurfaces
  /\ C27_ListingSurfaces


\* ---------------------------------------------------------------- C28
\* the rows of the table that stand for the result stamped t, when the
\* cycle completed
RowsOfResult(t) == {r \in conv.table : r.ts = t}

\* C28: when a webhook request has reported both writes successful and a
\* full-replace cycle that started afterwards completes successfully, the
\* table then holds exactly one row for that result.
C28_ConvergesToOneRow ==
  conv.done => \A t \in conv.after : Cardinality(RowsOfResult(t)) = 1

\* the same, for a cycle that no other POST /sync-results request overlaps
C28_ConvergesWhenAlone ==
  (conv.done /\ other.pc = "idle")
    => \A t \in conv.after : Cardinality(RowsOfResult(t)) = 1


\* ---------------------------------------------------------------- C29
\* C29: for every payload with a student name, the row the webhook inserts
\* directly and the row POST /sync-results derives from the spreadsheet row
\* the same request appended carry the same name, email, subject, topics,
\* questionsAnswered, score, feedback, transcript, recording URL and
\* evaluation.
C29_LegsAgree ==
  (dual.direct.k = "row" /\ dual.derived.k = "row") => dual.direct = dual.derived

\* the same for the text fields alone
C29_TextFieldsAgree ==
  (dual.direct.k = "row" /\ dual.derived.k = "row")
    => /\ dual.direct.name = dual.derived.name
       /\ dual.direct.email = dual.derived.email
       /\ dual.direct.subject = dual.derived.subject
       /\ dual.direct.topics = dual.derived.topics
       /\ dual.direct.feedback = dual.derived.feedback
       /\ dual.direct.transcript = dual.derived.transcript
       /\ dual.direct.recordingUrl = dual.derived.recordingUrl

\* the numbers agree
C29_NumbersAgree ==
  (dual.direct.k = "row" /\ dual.derived.k = "row")
    => /\ dual.direct.score = dual.derived.score
       /\ dual.direct.questionsAnswered = dual.derived.questionsAnswered

\* the evaluations agree
C29_EvaluationsAgree ==
  (dual.direct.k = "row" /\ dual.derived.k = "row")
    => dual.direct.evaluation = dual.derived.evaluation

====
